---- MODULE Spec2Model ----
(***************************************************************************)
(* Model of the pantry PWA's service worker (sw.js): the install and       *)
(* activate lifecycle handlers, the three caching strategies, the fetch    *)
(* router and the control-message handler, over a CacheStorage of named    *)
(* partitions.  URL paths are sequences of characters so that the routing  *)
(* predicates are computed with endsWith exactly as the code does.         *)
(***************************************************************************)
EXTENDS Integers, Sequences, FiniteSets, TLC

(* ------------------------------------------------------------------ *)
(* Bounds of the model                                                 *)
(* ------------------------------------------------------------------ *)
\* number of fetch events dispatched to the worker in one behaviour
MaxFetch == 2
\* the calendar days of the expiry dates and clock readings are 0..MaxDay
MaxDay == 9

(* ------------------------------------------------------------------ *)
(* Program constants (sw.js 6-27)                                      *)
(* ------------------------------------------------------------------ *)
CACHE_NAME == "despensa-v1"
STATIC_CACHE == "despensa-static-v1"
DYNAMIC_CACHE == "despensa-dynamic-v1"
\* a partition left behind by an earlier version of the worker
OLD_CACHE == "despensa-static-v0"
\* the static partition of the version deployed after this one
NEXT_CACHE == "despensa-static-v2"

P_ROOT == <<"/">>
P_INDEX == <<"/","i","n","d","e","x",".","h","t","m","l">>
P_MANIFEST == <<"/","m","a","n","i","f","e","s","t",".","j","s","o","n">>
P_MAIN_CSS == <<"/","s","r","c","/","c","s","s","/","m","a","i","n",".","c","s","s">>
P_VARS_CSS == <<"/","s","r","c","/","c","s","s","/","v","a","r","i","a","b","l","e","s",".","c","s","s">>
P_STYLES_CSS == <<"/","s","r","c","/","c","s","s","/","s","t","y","l","e","s",".","c","s","s">>
P_APP_JS == <<"/","s","r","c","/","j","s","/","a","p","p",".","j","s">>
P_DB_JS == <<"/","s","r","c","/","j","s","/","d","b",".","j","s">>
P_UTILS_JS == <<"/","s","r","c","/","j","s","/","u","t","i","l","s",".","j","s">>
P_NOTIF_JS == <<"/","s","r","c","/","j","s","/","n","o","t","i","f","i","c","a","t","i","o","n","s",".","j","s">>
P_ICON192 == <<"/","s","r","c","/","a","s","s","e","t","s","/","i","c","o","n","s","/","i","c","o","n","-","1","9","2","x","1","9","2",".","p","n","g">>
P_ICON512 == <<"/","s","r","c","/","a","s","s","e","t","s","/","i","c","o","n","s","/","i","c","o","n","-","5","1","2","x","5","1","2",".","p","n","g">>
\* requests of the running application that are not part of the app shell
P_API == <<"/","a","p","i","/","d","a","t","a">>
P_ABOUT == <<"/","a","b","o","u","t",".","h","t","m","l">>
P_LOGO == <<"/","l","o","g","o",".","p","n","g">>

STATIC_ASSETS ==
    << P_ROOT, P_INDEX, P_MANIFEST, P_MAIN_CSS, P_VARS_CSS, P_STYLES_CSS,
       P_APP_JS, P_DB_JS, P_UTILS_JS, P_NOTIF_JS, P_ICON192, P_ICON512 >>

OFFLINE_PAGE == P_INDEX

Range(s) == { s[i] : i \in DOMAIN s }

(* ------------------------------------------------------------------ *)
(* Routing predicates (sw.js 197-207)                                  *)
(* ------------------------------------------------------------------ *)
\* String.prototype.endsWith
EndsWith(p, suf) ==
    /\ Len(p) >= Len(suf)
    /\ SubSeq(p, Len(p) - Len(suf) + 1, Len(p)) = suf

staticExtensions ==
    << <<".","c","s","s">>, <<".","j","s">>, <<".","p","n","g">>,
       <<".","j","p","g">>, <<".","j","p","e","g">>, <<".","w","e","b","p">>,
       <<".","s","v","g">>, <<".","i","c","o">>, <<".","w","o","f","f">>,
       <<".","w","o","f","f","2">> >>

isStaticAsset(pathname) ==
    \E i \in DOMAIN staticExtensions : EndsWith(pathname, staticExtensions[i])

\* isHTMLPage without the test of the root path
isHTMLPageNoRoot(pathname) == EndsWith(pathname, <<".","h","t","m","l">>)

isHTMLPage(pathname) ==
    EndsWith(pathname, <<".","h","t","m","l">>) \/ pathname = P_ROOT

\* location.origin of the worker, and the origins requests are made to
LocationOrigin == "https://despensa.app"
Origins == {LocationOrigin, "https://cdn.example"}

\* Route without the method test of sw.js 177-179
RouteAnyMethod(origin, method, pathname) ==
    IF origin # LocationOrigin THEN "bypass"
    ELSE IF isStaticAsset(pathname) THEN "cacheFirst"
    ELSE IF isHTMLPage(pathname) THEN "staleWhileRevalidate"
    ELSE "networkFirst"

\* the branch the fetch listener takes (sw.js 167-192); "bypass" is a return
\* without respondWith
Route(origin, method, pathname) ==
    IF origin # LocationOrigin THEN "bypass"
    ELSE IF method # "GET" THEN "bypass"
    ELSE IF isStaticAsset(pathname) THEN "cacheFirst"
    ELSE IF isHTMLPage(pathname) THEN "staleWhileRevalidate"
    ELSE "networkFirst"

(* ------------------------------------------------------------------ *)
(* Responses and partitions                                            *)
(* ------------------------------------------------------------------ *)
\* A response is its URL, whether it is ok (2xx), and its body: "A" is the
\* content served when the worker installs, "B" the revision the network serves
\* afterwards, "Z" a copy cached before this installation

Resp(url, ok, body) == [url |-> url, ok |-> ok, body |-> body]
\* the value of a promise that resolved to undefined (no match)
Undefined == Resp(<<>>, FALSE, "undefined")
\* the value of a respondWith promise that has not settled yet
Pending == Resp(<<>>, FALSE, "pending")
\* the outcome of a promise that rejected
Rejected == Resp(<<>>, FALSE, "rejected")
\* a non-2xx response of the network
ErrorResp(url) == Resp(url, FALSE, "404")

CacheNames == {STATIC_CACHE, DYNAMIC_CACHE, OLD_CACHE, CACHE_NAME, NEXT_CACHE}

\* cache.match(request) on one partition: the entry whose key is the request
CacheMatch(entries, url) ==
    IF \E r \in entries : r.url = url
    THEN CHOOSE r \in entries : r.url = url
    ELSE Undefined

\* a put whose write is lost
CachePutDropped(entries, r) == entries

\* a put that keeps the entry already stored under the key
CachePutIfAbsent(entries, r) ==
    IF \E e \in entries : e.url = r.url THEN entries ELSE entries \cup {r}

\* cache.put(request, response): replaces the entry under the same key
CachePut(entries, r) == { e \in entries : e.url # r.url } \cup {r}

\* a lookup that consults only the oldest partition
MatchFirstOnly(list, cont, url) ==
    IF list = <<>> THEN Undefined ELSE CacheMatch(cont[Head(list)], url)

\* a lookup that prefers the partition created last
RECURSIVE MatchNewestFirst(_, _, _)
MatchNewestFirst(list, cont, url) ==
    IF list = <<>> THEN Undefined
    ELSE IF MatchNewestFirst(Tail(list), cont, url) # Undefined
         THEN MatchNewestFirst(Tail(list), cont, url)
         ELSE CacheMatch(cont[Head(list)], url)

\* caches.match(request): the first match over the partitions in the order of
\* caches.keys(), i.e. creation order
RECURSIVE MatchIn(_, _, _)
MatchIn(list, cont, url) ==
    IF list = <<>> THEN Undefined
    ELSE IF CacheMatch(cont[Head(list)], url) # Undefined
         THEN CacheMatch(cont[Head(list)], url)
         ELSE MatchIn(Tail(list), cont, url)

\* caches.open(name): creates the partition when it does not exist
OpenList(list, name) == IF name \in Range(list) THEN list ELSE Append(list, name)

\* a delete that spares the current partitions
DeleteOutdatedOnly(list, names) ==
    SelectSeq(list, LAMBDA n : n \notin names \/ n \in {STATIC_CACHE, DYNAMIC_CACHE})

\* a delete that removes nothing
DeleteNone(list, names) == list

\* caches.delete(name)
RECURSIVE DeleteFrom(_, _)
DeleteFrom(list, names) ==
    IF list = <<>> THEN <<>>
    ELSE IF Head(list) \in names THEN DeleteFrom(Tail(list), names)
         ELSE <<Head(list)>> \o DeleteFrom(Tail(list), names)


(* ------------------------------------------------------------------ *)
(* State                                                               *)
(* ------------------------------------------------------------------ *)
VARIABLES
    swState,         \* lifecycle state of this worker instance
    controller,      \* which version controls the pages: "none", "prev", "this"
    skipWaitingFlag, \* set by self.skipWaiting()
    instPc,          \* position of the install handler's promise chain
    instRef,         \* the static Cache object the install handler holds
    installOutcome,  \* "none", "ok" (addAll resolved), "failed" (it rejected)
    installPromise,  \* the promise given to event.waitUntil by the install listener
    actPc,           \* position of the activate handler's promise chain
    actNames,        \* the names the activate handler filtered for deletion
    actPre,          \* the partitions that existed when the activate event fired
    actCleared,      \* a clearCache message was handled during this activation
    cacheList,       \* caches.keys(): the existing partitions in creation order
    content,         \* the entries of every partition
    h,               \* the fetch events: one record per dispatched event
    nFetch           \* number of fetch events dispatched

\* the state of an evaluation of the expiry functions of utils.js
VARIABLES
    expiryDate,      \* the argument of getExpiryStatus
    now,             \* the clock reading `new Date()` gives, in hours
    zone,            \* the time zone of the device
    expOut           \* what getExpiryStatus returned, NoResult before the call

\* the state of a call of sortByExpiry or filterByExpiryStatus
VARIABLES
    products,        \* the array passed in
    listArg,         \* the second argument: the order or the filter
    listOut          \* what the call returned, NoList before the call

listVars == << products, listArg, listOut >>

\* the state of the expiry alert check of notifications.js
VARIABLES
    localStorage,    \* the two keys the module keeps: the preference and the
                     \* day of the last check
    calls,           \* the invocations of checkExpiryAlerts
    alertLog         \* what was done on the current calendar day

alertVars == << localStorage, calls, alertLog >>

utilVars == << expiryDate, now, zone, expOut, listVars, alertVars >>

lifeVars == << swState, controller, skipWaitingFlag, instPc, installOutcome,
               installPromise, actPc, actNames, actPre, actCleared >>
cacheVars == << cacheList, content, instRef >>
vars == << swState, controller, skipWaitingFlag, instPc, instRef, installOutcome,
           installPromise, actPc, actNames, actPre, actCleared, cacheList,
           content, h, nFetch, expiryDate, now, zone, expOut, products, listArg,
           listOut, localStorage, calls, alertLog >>

(* ------------------------------------------------------------------ *)
(* utils.js: days until expiry and expiry status (utils.js 25-85)      *)
(* ------------------------------------------------------------------ *)
\* Time is counted in hours.  An instant is the number of hours since 00:00
\* UTC of day 0; a calendar day is a day number.
HoursPerDay == 24
SoonDays == 7

\* A time zone is its UTC offset and, for a zone with a clock change, the
\* instant from which the offset is shifted by `shift` hours (shift 0: none).
\* The two Madrid zones put the change to summer time, and the change back, on
\* day 4 at 01:00 UTC.
ClockChangeDay == 4

Zones ==
    { [ name |-> "UTC", off |-> 0, changeAt |-> 0, shift |-> 0 ],
      [ name |-> "America/Mexico_City", off |-> -6, changeAt |-> 0, shift |-> 0 ],
      [ name |-> "Asia/Tokyo", off |-> 9, changeAt |-> 0, shift |-> 0 ],
      [ name |-> "Europe/Madrid (March)", off |-> 1,
        changeAt |-> HoursPerDay * ClockChangeDay + 1, shift |-> 1 ],
      [ name |-> "Europe/Madrid (October)", off |-> 2,
        changeAt |-> HoursPerDay * ClockChangeDay + 1, shift |-> -1 ] }

Offset(z, t) == z.off + (IF t >= z.changeAt THEN z.shift ELSE 0)

\* the wall-clock reading of instant t in zone z, and its calendar day
LocalHours(z, t) == t + Offset(z, t)
LocalDay(z, t) == LocalHours(z, t) \div HoursPerDay

\* the instant at which the wall clock of zone z reads `wall`
FromLocal(z, wall) ==
    CHOOSE m \in (wall - 14)..(wall + 14) : LocalHours(z, m) = wall

\* date.setHours(0, 0, 0, 0): the start of the date's local calendar day
SetHoursZero(z, t) == FromLocal(z, HoursPerDay * LocalDay(z, t))

\* JavaScript values: numbers, NaN and null; Date objects, valid or invalid
Num(n) == [ kind |-> "num", n |-> n ]
NaN == [ kind |-> "nan", n |-> 0 ]
Null == [ kind |-> "null", n |-> 0 ]
ValidDate(t) == [ valid |-> TRUE, t |-> t ]
InvalidDate == [ valid |-> FALSE, t |-> 0 ]

\* The values given as expiryDate: null, undefined, '', a string that is not a
\* date, a date-only string 'YYYY-MM-DD' (the value of a date input), and a
\* date-time string without zone 'YYYY-MM-DDTHH:00'
Absent(k) == [ kind |-> k, day |-> 0, hour |-> 0 ]
DateOnly(d) == [ kind |-> "dateOnly", day |-> d, hour |-> 0 ]
LocalDateTime(d, hh) == [ kind |-> "localDateTime", day |-> d, hour |-> hh ]

\* a test that takes only null for absent
IsNull(v) == v.kind = "null"

\* !expiryDate
IsFalsy(v) == v.kind \in {"null", "undefined", "empty"}

\* new Date(value): a date-only string is read as UTC midnight, a date-time
\* string without zone as local time, anything else gives an invalid date
NewDate(z, v) ==
    CASE v.kind = "dateOnly" -> ValidDate(HoursPerDay * v.day)
      [] v.kind = "localDateTime" ->
            ValidDate(FromLocal(z, HoursPerDay * v.day + v.hour))
      [] OTHER -> InvalidDate

\* Math.ceil(a / b) for b > 0
CeilDiv(a, b) == -((-a) \div b)

\* a version of getDaysUntilExpiry that measures from the clock reading to the
\* expiry instant without moving either to midnight
getDaysUntilExpiryElapsed(v, clock, z) ==
    IF IsFalsy(v) THEN Null
    ELSE LET expiry == NewDate(z, v)
         IN  IF ~expiry.valid THEN NaN
             ELSE Num(CeilDiv(expiry.t - clock, HoursPerDay))

\* getDaysUntilExpiry(expiryDate), with the clock reading and the zone it uses
getDaysUntilExpiry(v, clock, z) ==
    IF IsFalsy(v) THEN Null
    ELSE LET today == SetHoursZero(z, clock)
             expiry == NewDate(z, v)
         IN  IF ~expiry.valid THEN NaN
             ELSE Num(CeilDiv(SetHoursZero(z, expiry.t) - today, HoursPerDay))

\* the object getExpiryStatus returns: the label is its template and the
\* number it shows
Status(st, label, shown, class) ==
    [ status |-> st, label |-> label, shown |-> shown, class |-> class ]

\* Math.abs
Abs(n) == IF n < 0 THEN -n ELSE n

\* getExpiryStatus(expiryDate); every comparison with NaN is false
getExpiryStatus(v, clock, z) ==
    LET days == getDaysUntilExpiry(v, clock, z)
    IN  IF days = Null
        THEN Status("unknown", "Sin fecha", Null, "")
        ELSE IF days.kind = "num" /\ days.n < 0
        THEN Status("expired", "Caducado hace N día(s)", Num(Abs(days.n)),
                    "product-card--expired")
        ELSE IF days.kind = "num" /\ days.n = 0
        THEN Status("expired", "¡Caduca hoy!", Null, "product-card--expired")
        ELSE IF days.kind = "num" /\ days.n <= SoonDays
        THEN Status("soon", "Caduca en N día(s)", days, "product-card--soon")
        ELSE Status("ok", "Caduca en N días", days, "product-card--ok")

NoInput == Absent("none")
NoZone == [ name |-> "none", off |-> 0, changeAt |-> 0, shift |-> 0 ]
NoResult == [ days |-> Null, st |-> Status("none", "", Null, "") ]
NoList == [ op |-> "none", value |-> << >>, same |-> FALSE ]

MaxCalls == 2
NoDay == -1
NoCall == [ pc |-> "idle", today |-> NoDay, expired |-> 0 ]

\* checkExpiryAlerts has not been called and nothing is stored
AlertIdle ==
    /\ localStorage = [ enabled |-> FALSE, lastCheck |-> NoDay ]
    /\ calls = [ i \in 1..MaxCalls |-> NoCall ]
    /\ alertLog = [ queries |-> 0, shown |-> 0 ]

\* no evaluation of the expiry functions is in progress
UtilIdle ==
    /\ expiryDate = NoInput
    /\ now = 0
    /\ zone = NoZone
    /\ expOut = NoResult
    /\ products = << >>
    /\ listArg = "none"
    /\ listOut = NoList
    /\ AlertIdle

\* fetch() rejected (offline)
NetFail == Resp(<<>>, FALSE, "network-error")

Slots == 1..MaxFetch

IdleRec ==
    [ pc |-> "idle", strat |-> "none", origin |-> "", method |-> "", req |-> <<>>,
      responded |-> FALSE, cached |-> Undefined, net |-> Pending,
      result |-> Pending, put |-> "none", ref |-> 0, ops |-> <<>> ]

\* the partitions an earlier installation or version may have left behind
InitLists ==
    { <<>>, <<OLD_CACHE, CACHE_NAME>>, <<DYNAMIC_CACHE, OLD_CACHE>> }

InitContent ==
    [ n \in CacheNames |->
        IF n = OLD_CACHE
        THEN { Resp(P_INDEX, TRUE, "Z"), Resp(P_APP_JS, TRUE, "Z") }
        ELSE IF n = DYNAMIC_CACHE
        THEN { Resp(P_MANIFEST, TRUE, "Z"), Resp(P_INDEX, TRUE, "Z") }
        ELSE {} ]

Init ==
    /\ swState = "parsed"
    /\ controller \in {"none", "prev"}
    /\ skipWaitingFlag = FALSE
    /\ instPc = "none"
    /\ instRef = "none"
    /\ installOutcome = "none"
    /\ installPromise = "none"
    /\ actPc = "none"
    /\ actNames = {}
    /\ actPre = {}
    /\ actCleared = FALSE
    /\ cacheList \in InitLists
    /\ content = [ n \in CacheNames |->
                     IF n \in Range(cacheList) THEN InitContent[n] ELSE {} ]
    /\ h = [ s \in Slots |-> IdleRec ]
    /\ nFetch = 0
    /\ UtilIdle

(* ------------------------------------------------------------------ *)
(* caches.delete of a set of names (used by activate and clearCache)   *)
(* ------------------------------------------------------------------ *)
\* Deleting a partition removes its name from the store; a Cache object that a
\* handler already holds stays usable but is no longer reachable by name.  A
\* call that holds the dynamic Cache object has ref 0 while that object is the
\* one reachable by name and, once it is detached, the number of deletions of
\* the dynamic partition since, which tells detached objects apart.  A
\* staleWhileRevalidate call waiting on cache.match keeps seeing the entry its
\* object held.
Holds(rec) == rec.pc \in {"swr_match", "swr_fetch"} \/ rec.put = "pending"

Detach(rec, entries) ==
    IF ~Holds(rec) THEN rec
    ELSE [ rec EXCEPT !.ref = @ + 1,
                      !.cached = IF rec.pc = "swr_match" /\ rec.ref = 0
                                 THEN CacheMatch(entries, rec.req) ELSE @ ]

DoDelete(names) ==
    LET dynGone == DYNAMIC_CACHE \in names /\ DYNAMIC_CACHE \in Range(cacheList)
    IN  /\ cacheList' = DeleteFrom(cacheList, names)
        /\ content' = [ n \in CacheNames |-> IF n \in names THEN {} ELSE content[n] ]
        /\ instRef' = IF STATIC_CACHE \in names /\ instRef = "live"
                      THEN "orphan" ELSE instRef
        /\ h' = [ s \in Slots |->
                    IF dynGone THEN Detach(h[s], content[DYNAMIC_CACHE]) ELSE h[s] ]

(* ------------------------------------------------------------------ *)
(* install listener (sw.js 33-50)                                      *)
(* ------------------------------------------------------------------ *)
\* the install event is dispatched: the listener calls caches.open
InstallEvent ==
    /\ swState = "parsed"
    /\ swState' = "installing"
    /\ instPc' = "open"
    /\ installPromise' = "pending"
    /\ UNCHANGED << utilVars, controller, skipWaitingFlag, installOutcome, actPc, actNames,
                    actPre, actCleared, cacheVars, h, nFetch >>

\* caches.open(STATIC_CACHE) resolves
InstallOpen ==
    /\ instPc = "open"
    /\ cacheList' = OpenList(cacheList, STATIC_CACHE)
    /\ instRef' = "live"
    /\ instPc' = "addAll"
    /\ UNCHANGED << utilVars, swState, controller, skipWaitingFlag, installOutcome,
                    installPromise, actPc, actNames, actPre, actCleared, content,
                    h, nFetch >>

\* what the promise chain of the install listener settles to, given whether
\* cache.addAll resolved: the .catch at the end turns a rejection into a
\* resolution (sw.js 46-48)
InstallSettle(addAllOk) == "resolved"

\* the platform's step after the install event: a rejected waitUntil promise
\* makes the instance redundant, otherwise it becomes installed (waiting)
AfterInstall(promise) == IF promise = "rejected" THEN "redundant" ELSE "installed"

\* a chain that calls self.skipWaiting() whether or not addAll resolved
InstallSkipWaitingAlways(addAllOk) == TRUE

\* whether the promise chain reaches self.skipWaiting() (sw.js 42-45)
InstallSkipWaiting(addAllOk) == addAllOk

\* cache.addAll(STATIC_ASSETS) settles: it stores every resource or, when the
\* fetch of any of them failed, none; then the rest of the chain runs
InstallAddAll(failed) ==
    /\ instPc = "addAll"
    /\ LET ok == failed = {}
       IN  /\ installOutcome' = IF ok THEN "ok" ELSE "failed"
           /\ content' =
                IF ok /\ instRef = "live"
                THEN [ content EXCEPT ![STATIC_CACHE] =
                         { e \in @ : e.url \notin Range(STATIC_ASSETS) }
                         \cup { Resp(u, TRUE, "A") : u \in Range(STATIC_ASSETS) } ]
                ELSE content
           /\ skipWaitingFlag' = (skipWaitingFlag \/ InstallSkipWaiting(ok))
           /\ installPromise' = InstallSettle(ok)
           /\ swState' = AfterInstall(InstallSettle(ok))
    /\ instPc' = "done"
    /\ instRef' = "none"
    /\ UNCHANGED << utilVars, controller, actPc, actNames, actPre, actCleared, cacheList,
                    h, nFetch >>

(* ------------------------------------------------------------------ *)
(* activate listener (sw.js 56-81)                                     *)
(* ------------------------------------------------------------------ *)
\* the platform activates a waiting instance when its skip-waiting flag is set
\* or no page is controlled by a previous version
ActivateEvent ==
    /\ swState = "installed"
    /\ skipWaitingFlag \/ controller # "prev"
    /\ swState' = "activating"
    /\ actPc' = "keys"
    /\ actPre' = Range(cacheList)
    /\ UNCHANGED << utilVars, controller, skipWaitingFlag, instPc, installOutcome,
                    installPromise, actNames, actCleared, cacheVars, h, nFetch >>

\* the filter with the test of DYNAMIC_CACHE left out
IsOutdatedStaticOnly(name) == name # STATIC_CACHE

\* the filter of the activate listener (sw.js 65-69)
IsOutdated(name) == name # STATIC_CACHE /\ name # DYNAMIC_CACHE

\* caches.keys() resolves and the names are filtered
ActivateKeys ==
    /\ actPc = "keys"
    /\ actNames' = { n \in Range(cacheList) : IsOutdated(n) }
    /\ actPc' = "purge"
    /\ UNCHANGED << utilVars, swState, controller, skipWaitingFlag, instPc, installOutcome,
                    installPromise, actPre, actCleared, cacheVars, h, nFetch >>

\* an activate handler that goes on to clients.claim() without deleting
ActivateWithoutPurge ==
    /\ actPc = "purge"
    /\ actPc' = "claim"
    /\ UNCHANGED << utilVars, swState, controller, skipWaitingFlag, instPc, installOutcome,
                    installPromise, actNames, actPre, actCleared, cacheVars, h, nFetch >>

\* every caches.delete of Promise.all has resolved
ActivatePurge ==
    /\ actPc = "purge"
    /\ DoDelete(actNames)
    /\ actPc' = "claim"
    /\ UNCHANGED << utilVars, swState, controller, skipWaitingFlag, instPc, installOutcome,
                    installPromise, actNames, actPre, actCleared, nFetch >>

\* self.clients.claim() resolves, the waitUntil promise settles and the
\* instance is active
ActivateClaim ==
    /\ actPc = "claim"
    /\ controller' = "this"
    /\ swState' = "activated"
    /\ actPc' = "done"
    /\ actNames' = {}
    /\ actPre' = {}
    /\ actCleared' = FALSE
    /\ UNCHANGED << utilVars, skipWaitingFlag, instPc, installOutcome, installPromise,
                    cacheVars, h, nFetch >>

\* the pages controlled by the previous version are closed
PrevClientsClose ==
    /\ controller = "prev"
    /\ swState \in {"installing", "installed"}
    /\ controller' = "none"
    /\ UNCHANGED << utilVars, swState, skipWaitingFlag, instPc, installOutcome,
                    installPromise, actPc, actNames, actPre, actCleared,
                    cacheVars, h,
                    nFetch >>


(* ------------------------------------------------------------------ *)
(* fetch listener and the three strategies (sw.js 91-192)              *)
(* ------------------------------------------------------------------ *)
\* the fetch events of the model: every kind of same-origin GET request, and
\* requests the listener must leave alone
Requests == { P_INDEX, P_ABOUT, P_APP_JS, P_MANIFEST }

FetchInputs ==
    { <<LocationOrigin, "GET", p>> : p \in Requests }
    \cup { <<"https://cdn.example", "GET", P_LOGO>>,
           <<LocationOrigin, "POST", P_API>> }

\* what fetch(request) can settle to: a rejection, a non-2xx response, or a
\* 2xx response carrying the current revision of the resource
NetOutcomes(url) == { NetFail, ErrorResp(url), Resp(url, TRUE, "B") }

\* the first await of each strategy
StartPc(strat) ==
    CASE strat = "cacheFirst" -> "cf_match"
      [] strat = "networkFirst" -> "nf_fetch"
      [] strat = "staleWhileRevalidate" -> "swr_open"
      [] OTHER -> "done"

\* a call that has returned and whose cache write, if any, has landed
Finished(rec) == rec.pc = "done" /\ rec.put # "pending"

\* a fetch event is dispatched to the active worker and the listener runs; the
\* records of the calls that are over are dropped
FetchEvent(in) ==
    /\ swState = "activated"
    /\ controller = "this"
    /\ nFetch < MaxFetch
    /\ nFetch' = nFetch + 1
    /\ LET strat == Route(in[1], in[2], in[3])
           kept == [ s \in Slots |-> IF Finished(h[s]) THEN IdleRec ELSE h[s] ]
           slot == CHOOSE s \in Slots :
                     /\ kept[s].pc = "idle"
                     /\ \A t \in Slots : kept[t].pc = "idle" => s <= t
       IN  h' = [ kept EXCEPT ![slot] =
               [ IdleRec EXCEPT !.pc = StartPc(strat), !.strat = strat,
                                !.origin = in[1], !.method = in[2], !.req = in[3],
                                !.responded = (strat # "bypass") ] ]
    /\ UNCHANGED << utilVars, lifeVars, cacheVars >>

\* a return that also calls cache.put for the value returned
ReturnAndStore(rec, v) ==
    [ rec EXCEPT !.pc = "done", !.result = v, !.net = v, !.put = "pending",
                 !.ref = 0 ]

\* the call returns value v
Return(rec, v) == [ rec EXCEPT !.pc = "done", !.result = v ]

\* `return caches.match(OFFLINE_PAGE)` (sw.js 110, 137)
OfflineFallback(list, cont) == MatchIn(list, cont, OFFLINE_PAGE)

\* the network response returned without cache.put being called
ReturnWithoutStore(rec, out) ==
    [ Return(rec, out) EXCEPT !.net = out, !.ops = @ \o <<"fetch", "open">> ]

\* caches.open(DYNAMIC_CACHE) has resolved: cache.put(request, clone) is called
\* without being awaited, and the network response is returned
\* (sw.js 102-107, 123-128)
StoreAndReturn(rec, out) ==
    [ Return(rec, out) EXCEPT !.net = out, !.ref = 0, !.put = "pending",
                              !.ops = @ \o <<"fetch", "open", "put">> ]

\* cacheFirst: caches.match(request) resolves (sw.js 92-96)
CfMatch(s) ==
    /\ h[s].pc = "cf_match"
    /\ LET m == MatchIn(cacheList, content, h[s].req)
           rec == [ h[s] EXCEPT !.cached = m, !.ops = Append(@, "match") ]
       IN  h' = [ h EXCEPT ![s] = IF m # Undefined THEN Return(rec, m)
                                  ELSE [ rec EXCEPT !.pc = "cf_fetch" ] ]
    /\ UNCHANGED << utilVars, lifeVars, cacheVars, nFetch >>

\* cacheFirst: the fetch has settled to `out` and the cache operation that
\* follows it has resolved (sw.js 98-111)
CfNetwork(s, out) ==
    /\ h[s].pc = "cf_fetch"
    /\ IF out = NetFail
       THEN /\ h' = [ h EXCEPT ![s] =
                        Return([ h[s] EXCEPT !.net = out,
                                             !.ops = @ \o <<"fetch", "offline">> ],
                               OfflineFallback(cacheList, content)) ]
            /\ UNCHANGED cacheList
       ELSE IF out.ok
       THEN /\ cacheList' = OpenList(cacheList, DYNAMIC_CACHE)
            /\ h' = [ h EXCEPT ![s] = StoreAndReturn(h[s], out) ]
       ELSE /\ h' = [ h EXCEPT ![s] =
                        Return([ h[s] EXCEPT !.net = out,
                                             !.ops = Append(@, "fetch") ], out) ]
            /\ UNCHANGED cacheList
    /\ UNCHANGED << utilVars, lifeVars, content, instRef, nFetch >>

\* networkFirst: the fetch has settled to `out` and the cache operation that
\* follows it has resolved (sw.js 119-134)
NfNetwork(s, out) ==
    /\ h[s].pc = "nf_fetch"
    /\ IF out = NetFail
       THEN /\ LET m == MatchIn(cacheList, content, h[s].req)
                   rec == [ h[s] EXCEPT !.cached = m, !.net = out,
                                        !.ops = @ \o <<"fetch", "match">> ]
               IN  h' = [ h EXCEPT ![s] = IF m # Undefined THEN Return(rec, m)
                                          ELSE [ rec EXCEPT !.pc = "nf_offline" ] ]
            /\ UNCHANGED cacheList
       ELSE IF out.ok
       THEN /\ cacheList' = OpenList(cacheList, DYNAMIC_CACHE)
            /\ h' = [ h EXCEPT ![s] = StoreAndReturn(h[s], out) ]
       ELSE /\ h' = [ h EXCEPT ![s] =
                        Return([ h[s] EXCEPT !.net = out,
                                             !.ops = Append(@, "fetch") ], out) ]
            /\ UNCHANGED cacheList
    /\ UNCHANGED << utilVars, lifeVars, content, instRef, nFetch >>

\* networkFirst: caches.match(OFFLINE_PAGE) resolves (sw.js 136-137)
NfOffline(s) ==
    /\ h[s].pc = "nf_offline"
    /\ h' = [ h EXCEPT ![s] =
                Return([ h[s] EXCEPT !.ops = Append(@, "offline") ],
                       OfflineFallback(cacheList, content)) ]
    /\ UNCHANGED << utilVars, lifeVars, cacheVars, nFetch >>

\* staleWhileRevalidate: caches.open(DYNAMIC_CACHE) resolves (sw.js 146)
SwrOpen(s) ==
    /\ h[s].pc = "swr_open"
    /\ cacheList' = OpenList(cacheList, DYNAMIC_CACHE)
    /\ h' = [ h EXCEPT ![s] = [ @ EXCEPT !.pc = "swr_match", !.ref = 0,
                                         !.ops = Append(@, "open") ] ]
    /\ UNCHANGED << utilVars, lifeVars, content, instRef, nFetch >>

\* a return statement that always waits for fetchPromise
SwrAwaitFetch(cachedResponse) == Pending

\* what the call returns at `return cachedResponse || fetchPromise` before the
\* fetch has settled (sw.js 160): the cached response when there is one
SwrEarly(cachedResponse) ==
    IF cachedResponse # Undefined THEN cachedResponse ELSE Pending

\* staleWhileRevalidate: cache.match(request) on the opened partition resolves,
\* the fetch is started and the return statement runs (sw.js 147-160)
SwrMatch(s) ==
    /\ h[s].pc = "swr_match"
    /\ LET c == IF h[s].ref = 0
                THEN CacheMatch(content[DYNAMIC_CACHE], h[s].req)
                ELSE h[s].cached
       IN  h' = [ h EXCEPT ![s] = [ @ EXCEPT !.pc = "swr_fetch", !.cached = c,
                                             !.result = SwrEarly(c),
                                             !.ops = Append(@, "match") ] ]
    /\ UNCHANGED << utilVars, lifeVars, cacheVars, nFetch >>

\* a fetchPromise without the .catch: the rejection goes on to the caller
SwrRethrow(cachedResponse) == Rejected

\* the value of fetchPromise when the fetch rejected: .catch(() => cachedResponse)
\* (sw.js 157)
SwrCatch(cachedResponse) == cachedResponse

\* staleWhileRevalidate: the fetch settles and fetchPromise's handlers run: an ok
\* response is put (not awaited) in the partition opened at the start
\* (sw.js 150-157)
SwrNetwork(s, out) ==
    /\ h[s].pc = "swr_fetch"
    /\ LET value == IF out = NetFail
                    THEN SwrCatch(h[s].cached)
                    ELSE out
           stored == out # NetFail /\ out.ok
       IN  h' = [ h EXCEPT ![s] = [ @ EXCEPT
                      !.pc = "done",
                      !.net = out,
                      !.put = IF stored THEN "pending" ELSE @,
                      !.ref = IF stored THEN @ ELSE 0,
                      !.result = IF @ = Pending THEN value ELSE @,
                      !.ops = IF stored THEN @ \o <<"fetch", "put">>
                              ELSE Append(@, "fetch") ] ]
    /\ UNCHANGED << utilVars, lifeVars, cacheVars, nFetch >>

\* a strategy that opens the static partition for its writes
PutPartitionStatic == STATIC_CACHE

\* the partition the strategies open for their writes (sw.js 103, 124, 146)
PutPartition == DYNAMIC_CACHE

\* a cache.put that was called lands: in the dynamic partition when the Cache
\* object is still the one reachable by name, otherwise in the detached object
PutLand(s) ==
    /\ h[s].put = "pending"
    /\ LET live == h[s].ref = 0
       IN  /\ content' = IF live
                         THEN [ content EXCEPT ![PutPartition] = CachePut(@, h[s].net) ]
                         ELSE content
           /\ h' = [ t \in Slots |->
                       IF t = s THEN [ h[s] EXCEPT !.put = "landed", !.ref = 0 ]
                       ELSE IF ~live /\ h[t].pc = "swr_match" /\ h[t].ref = h[s].ref
                               /\ h[t].req = h[s].req
                       THEN [ h[t] EXCEPT !.cached = h[s].net ]
                       ELSE h[t] ]
    /\ UNCHANGED << utilVars, lifeVars, cacheList, instRef, nFetch >>

(* ------------------------------------------------------------------ *)
(* message listener (sw.js 302-316)                                    *)
(* ------------------------------------------------------------------ *)
MsgActions == {"skipWaiting", "clearCache"}

\* a listener whose skipWaiting command flips the flag
MsgEventToggle(action) ==
    /\ swState \in {"installing", "installed", "activating", "activated"}
    /\ skipWaitingFlag' = IF action = "skipWaiting" THEN ~skipWaitingFlag
                          ELSE skipWaitingFlag
    /\ IF action = "clearCache"
       THEN DoDelete(Range(cacheList))
       ELSE UNCHANGED << cacheVars, h >>
    /\ actCleared' = (actCleared \/ (action = "clearCache" /\ swState = "activating"))
    /\ UNCHANGED << utilVars, swState, controller, instPc, installOutcome, installPromise,
                    actPc, actNames, actPre, nFetch >>

\* a message is posted to the worker and the listener runs: skipWaiting sets
\* the flag; clearCache reads caches.keys() and deletes every name
MsgEvent(action) ==
    /\ swState \in {"installing", "installed", "activating", "activated"}
    /\ skipWaitingFlag' = (skipWaitingFlag \/ action = "skipWaiting")
    /\ IF action = "clearCache"
       THEN DoDelete(Range(cacheList))
       ELSE UNCHANGED << cacheVars, h >>
    /\ actCleared' = (actCleared \/ (action = "clearCache" /\ swState = "activating"))
    /\ UNCHANGED << utilVars, swState, controller, instPc, installOutcome, installPromise,
                    actPc, actNames, actPre, nFetch >>

(* ------------------------------------------------------------------ *)
(* Specification                                                       *)
(* ------------------------------------------------------------------ *)
Next ==
    \/ InstallEvent
    \/ InstallOpen
    \/ \E failed \in { {}, {P_ICON512} } : InstallAddAll(failed)
    \/ ActivateEvent
    \/ ActivateKeys
    \/ ActivatePurge
    \/ ActivateClaim
    \/ PrevClientsClose
    \/ \E in \in FetchInputs : FetchEvent(in)
    \/ \E s \in Slots : CfMatch(s)
    \/ \E s \in Slots : \E out \in NetOutcomes(h[s].req) : CfNetwork(s, out)
    \/ \E s \in Slots : \E out \in NetOutcomes(h[s].req) : NfNetwork(s, out)
    \/ \E s \in Slots : NfOffline(s)
    \/ \E s \in Slots : SwrOpen(s)
    \/ \E s \in Slots : SwrMatch(s)
    \/ \E s \in Slots : \E out \in NetOutcomes(h[s].req) : SwrNetwork(s, out)
    \/ \E s \in Slots : PutLand(s)
    \/ \E a \in MsgActions : MsgEvent(a)

Spec == Init /\ [][Next]_vars

(* ------------------------------------------------------------------ *)
(* The router alone: an active worker after a successful install, and  *)
(* fetch events over a wide set of paths                               *)
(* ------------------------------------------------------------------ *)
RouteStems ==
    { <<"/">>, <<"/","a">>, <<"/","a",".","j","s","/","b">>,
      <<"/","x",".","h","t","m","l">> }

RouteSuffixes ==
    Range(staticExtensions)
    \cup { <<>>, <<".","h","t","m","l">>, <<".","j","s","o","n">>,
           <<".","h","t","m">>, <<".","j","s","x">>, <<".","m","a","p">>,
           <<".","C","S","S">>, <<"j","s">> }

RoutePaths == { st \o su : st \in RouteStems, su \in RouteSuffixes }

RouteInputs ==
    { <<LocationOrigin, "GET", p>> : p \in RoutePaths }
    \cup { <<o, m, p>> : o \in Origins, m \in {"GET", "POST"},
                         p \in { <<"/">>, <<"/","a",".","j","s">> } }

RouteInit ==
    /\ swState = "activated"
    /\ controller = "this"
    /\ skipWaitingFlag = TRUE
    /\ instPc = "done"
    /\ instRef = "none"
    /\ installOutcome = "ok"
    /\ installPromise = "resolved"
    /\ actPc = "done"
    /\ actNames = {}
    /\ actPre = {}
    /\ actCleared = FALSE
    /\ cacheList = <<STATIC_CACHE>>
    /\ content = [ n \in CacheNames |->
                     IF n = STATIC_CACHE
                     THEN { Resp(u, TRUE, "A") : u \in Range(STATIC_ASSETS) }
                     ELSE {} ]
    /\ h = [ s \in Slots |-> IdleRec ]
    /\ nFetch = 0
    /\ UtilIdle

RouteNext == \E in \in RouteInputs : FetchEvent(in)

RouteSpec == RouteInit /\ [][RouteNext]_vars

(* ------------------------------------------------------------------ *)
(* The strategies when operations of the cache store reject            *)
(* ------------------------------------------------------------------ *)
\* cacheFirst: caches.match(request) rejects; the await is outside the try, so
\* the call rejects (sw.js 92)
CfMatchFails(s) ==
    /\ h[s].pc = "cf_match"
    /\ h' = [ h EXCEPT ![s] =
                Return([ h[s] EXCEPT !.ops = Append(@, "match-rejected") ], Rejected) ]
    /\ UNCHANGED << utilVars, lifeVars, cacheVars, nFetch >>

\* the value of `return caches.match(OFFLINE_PAGE)` in a catch block when the
\* store may reject (sw.js 110, 137)
OfflineOrRejected(matchOk, list, cont) ==
    IF matchOk THEN OfflineFallback(list, cont) ELSE Rejected

\* cacheFirst: the fetch gave an ok response and caches.open(DYNAMIC_CACHE)
\* rejects inside the try: the catch block returns caches.match(OFFLINE_PAGE),
\* which resolves or rejects in turn (sw.js 99-110)
CfOpenFails(s, out, matchOk) ==
    /\ h[s].pc = "cf_fetch"
    /\ out.ok
    /\ h' = [ h EXCEPT ![s] =
                Return([ h[s] EXCEPT !.net = out,
                                     !.ops = @ \o <<"fetch", "open-rejected", "offline">> ],
                       OfflineOrRejected(matchOk, cacheList, content)) ]
    /\ UNCHANGED << utilVars, lifeVars, cacheVars, nFetch >>

\* networkFirst: the fetch gave an ok response and caches.open(DYNAMIC_CACHE)
\* rejects inside the try: the catch block awaits caches.match(request), which
\* resolves (to an entry, or to undefined and the offline lookup follows) or
\* rejects (sw.js 120-137)
NfOpenFails(s, out, matchOk) ==
    /\ h[s].pc = "nf_fetch"
    /\ out.ok
    /\ LET m == MatchIn(cacheList, content, h[s].req)
           rec == [ h[s] EXCEPT !.net = out,
                                !.ops = @ \o <<"fetch", "open-rejected", "match">> ]
       IN  h' = [ h EXCEPT ![s] =
                    IF ~matchOk THEN Return(rec, Rejected)
                    ELSE IF m # Undefined THEN Return([ rec EXCEPT !.cached = m ], m)
                    ELSE [ rec EXCEPT !.pc = "nf_offline" ] ]
    /\ UNCHANGED << utilVars, lifeVars, cacheVars, nFetch >>

\* networkFirst: caches.match(OFFLINE_PAGE) in the catch block resolves or
\* rejects (sw.js 137)
NfOfflineStore(s, matchOk) ==
    /\ h[s].pc = "nf_offline"
    /\ h' = [ h EXCEPT ![s] =
                Return([ h[s] EXCEPT !.ops = Append(@, "offline") ],
                       OfflineOrRejected(matchOk, cacheList, content)) ]
    /\ UNCHANGED << utilVars, lifeVars, cacheVars, nFetch >>

\* staleWhileRevalidate: caches.open(DYNAMIC_CACHE) rejects; no try surrounds
\* it, so the call rejects before any fetch (sw.js 146)
SwrOpenFails(s) ==
    /\ h[s].pc = "swr_open"
    /\ h' = [ h EXCEPT ![s] =
                Return([ h[s] EXCEPT !.ops = Append(@, "open-rejected") ], Rejected) ]
    /\ UNCHANGED << utilVars, lifeVars, cacheVars, nFetch >>

\* staleWhileRevalidate: cache.match(request) rejects; the call rejects before
\* the fetch is started (sw.js 147)
SwrMatchFails(s) ==
    /\ h[s].pc = "swr_match"
    /\ h' = [ h EXCEPT ![s] =
                Return([ h[s] EXCEPT !.ref = 0,
                                     !.ops = Append(@, "match-rejected") ], Rejected) ]
    /\ UNCHANGED << utilVars, lifeVars, cacheVars, nFetch >>

\* a cache.put that was called rejects: nothing is stored, and since the put is
\* not awaited the call is not affected (sw.js 104, 125, 153)
PutFails(s) ==
    /\ h[s].put = "pending"
    /\ h' = [ h EXCEPT ![s] = [ @ EXCEPT !.put = "rejected", !.ref = 0 ] ]
    /\ UNCHANGED << utilVars, lifeVars, cacheVars, nFetch >>

\* one request for each case: a script and a page that are not cached, a
\* resource the static partition holds, and one held nowhere
DegradedInputs ==
    { <<LocationOrigin, "GET", p>> : p \in { P_LOGO, P_ABOUT, P_MANIFEST, P_API } }

\* the network is reachable
ReachableOutcomes(url) == { ErrorResp(url), Resp(url, TRUE, "B") }

DegradedNext ==
    \/ \E in \in DegradedInputs : FetchEvent(in)
    \/ \E s \in Slots : CfMatch(s)
    \/ \E s \in Slots : CfMatchFails(s)
    \/ \E s \in Slots : \E out \in ReachableOutcomes(h[s].req) : CfNetwork(s, out)
    \/ \E s \in Slots : \E out \in ReachableOutcomes(h[s].req) :
          \E matchOk \in BOOLEAN : CfOpenFails(s, out, matchOk)
    \/ \E s \in Slots : \E out \in ReachableOutcomes(h[s].req) : NfNetwork(s, out)
    \/ \E s \in Slots : \E out \in ReachableOutcomes(h[s].req) :
          \E matchOk \in BOOLEAN : NfOpenFails(s, out, matchOk)
    \/ \E s \in Slots : \E matchOk \in BOOLEAN : NfOfflineStore(s, matchOk)
    \/ \E s \in Slots : SwrOpen(s)
    \/ \E s \in Slots : SwrOpenFails(s)
    \/ \E s \in Slots : SwrMatch(s)
    \/ \E s \in Slots : SwrMatchFails(s)
    \/ \E s \in Slots : \E out \in ReachableOutcomes(h[s].req) : SwrNetwork(s, out)
    \/ \E s \in Slots : PutLand(s)
    \/ \E s \in Slots : PutFails(s)

DegradedSpec == RouteInit /\ [][DegradedNext]_vars

(* ------------------------------------------------------------------ *)
(* The active worker beside concurrent requests for one URL, a network *)
(* that serves two revisions, and the installation of a later version  *)
(* ------------------------------------------------------------------ *)
SharedInputs ==
    { <<LocationOrigin, "GET", p>> : p \in { P_LOGO, P_ABOUT, P_MANIFEST } }

\* fetch(request) rejects or gives one of two successive revisions
RevisionOutcomes(url) == { NetFail, Resp(url, TRUE, "B"), Resp(url, TRUE, "C") }

\* the install handler of the next version of the worker runs in its own
\* instance while this one is active: it creates its static partition and
\* fills it with its resources
NewerInstall ==
    /\ NEXT_CACHE \notin Range(cacheList)
    /\ cacheList' = OpenList(cacheList, NEXT_CACHE)
    /\ content' = [ content EXCEPT ![NEXT_CACHE] =
                      { Resp(P_LOGO, TRUE, "N"), Resp(P_MANIFEST, TRUE, "N") } ]
    /\ UNCHANGED << utilVars, lifeVars, instRef, h, nFetch >>

SharedNext ==
    \/ \E in \in SharedInputs : FetchEvent(in)
    \/ \E s \in Slots : CfMatch(s)
    \/ \E s \in Slots : \E out \in RevisionOutcomes(h[s].req) : CfNetwork(s, out)
    \/ \E s \in Slots : \E out \in RevisionOutcomes(h[s].req) : NfNetwork(s, out)
    \/ \E s \in Slots : NfOffline(s)
    \/ \E s \in Slots : SwrOpen(s)
    \/ \E s \in Slots : SwrMatch(s)
    \/ \E s \in Slots : \E out \in RevisionOutcomes(h[s].req) : SwrNetwork(s, out)
    \/ \E s \in Slots : PutLand(s)
    \/ MsgEvent("clearCache")
    \/ NewerInstall

SharedSpec == RouteInit /\ [][SharedNext]_vars

(* ------------------------------------------------------------------ *)
(* Evaluations of getExpiryStatus over dates, clock readings and zones  *)
(* ------------------------------------------------------------------ *)
Days == 0..MaxDay
DayHours == {0, 9, 23}

ExpiryInputs ==
    { Absent(k) : k \in {"null", "undefined", "empty", "malformed"} }
    \cup { DateOnly(d) : d \in Days }
    \cup { LocalDateTime(d, hh) : d \in Days, hh \in DayHours }

ClockReadings == { HoursPerDay * d + hh : d \in Days, hh \in DayHours }

\* the worker plays no part in these evaluations
SwQuiet ==
    /\ swState = "parsed"
    /\ controller = "none"
    /\ skipWaitingFlag = FALSE
    /\ instPc = "none"
    /\ instRef = "none"
    /\ installOutcome = "none"
    /\ installPromise = "none"
    /\ actPc = "none"
    /\ actNames = {}
    /\ actPre = {}
    /\ actCleared = FALSE
    /\ cacheList = <<>>
    /\ content = [ n \in CacheNames |-> {} ]
    /\ h = [ s \in Slots |-> IdleRec ]
    /\ nFetch = 0

ExpiryInit ==
    /\ SwQuiet
    /\ expiryDate = NoInput
    /\ now \in ClockReadings
    /\ zone \in Zones
    /\ expOut = NoResult
    /\ products = << >>
    /\ listArg = "none"
    /\ listOut = NoList
    /\ AlertIdle

\* getExpiryStatus(v) is called and returns; expiryDate is the argument of the
\* latest call and expOut what it returned
Classify(v) ==
    /\ expiryDate' = v
    /\ expOut' = [ days |-> getDaysUntilExpiry(v, now, zone),
                   st |-> getExpiryStatus(v, now, zone) ]
    /\ UNCHANGED << now, zone, listVars, alertVars, lifeVars,
                    cacheVars, h, nFetch >>

\* the clock the functions read with new Date() advances; what was returned on
\* an earlier calendar day is about another 'today' and is dropped
Tick(t) ==
    /\ t > now
    /\ now' = t
    /\ IF LocalDay(zone, t) = LocalDay(zone, now)
       THEN UNCHANGED << expiryDate, expOut >>
       ELSE expiryDate' = NoInput /\ expOut' = NoResult
    /\ UNCHANGED << zone, listVars, alertVars, lifeVars,
                    cacheVars, h, nFetch >>

ExpiryNext ==
    \/ \E v \in ExpiryInputs : Classify(v)
    \/ \E t \in ClockReadings : Tick(t)

ExpirySpec == ExpiryInit /\ [][ExpiryNext]_vars

(* ------------------------------------------------------------------ *)
(* utils.js: sortByExpiry (175-187) and filterByExpiryStatus (194-201) *)
(* ------------------------------------------------------------------ *)
MaxLen == 5

\* a stored record: its place in the input array identifies it
Product(i, v) == [ id |-> i, expiryDate |-> v ]

\* a comparator that subtracts the dates of any two records
compareDatesOnly(a, b, order, z) ==
    LET dateA == NewDate(z, a.expiryDate)
        dateB == NewDate(z, b.expiryDate)
    IN  IF ~dateA.valid \/ ~dateB.valid THEN NaN
        ELSE IF order = "asc" THEN Num(dateA.t - dateB.t)
        ELSE Num(dateB.t - dateA.t)

\* the comparator sortByExpiry passes to sort; a Date that is invalid makes the
\* difference NaN
compare(a, b, order, z) ==
    IF IsFalsy(a.expiryDate) /\ IsFalsy(b.expiryDate) THEN Num(0)
    ELSE IF IsFalsy(a.expiryDate) THEN Num(1)
    ELSE IF IsFalsy(b.expiryDate) THEN Num(-1)
    ELSE LET dateA == NewDate(z, a.expiryDate)
             dateB == NewDate(z, b.expiryDate)
         IN  IF ~dateA.valid \/ ~dateB.valid THEN NaN
             ELSE IF order = "asc" THEN Num(dateA.t - dateB.t)
             ELSE Num(dateB.t - dateA.t)

\* what Array.prototype.sort makes of the comparator's result: NaN counts as 0
SortCompare(a, b, order, z) ==
    LET v == compare(a, b, order, z)
    IN  IF v.kind = "num" THEN v.n ELSE 0

\* Array.prototype.sort is stable.  For a comparator that is not consistent
\* the order is left to the engine: the two ways engines sort short arrays are
\* both modelled, insertion sort and bottom-up merge sort.

RECURSIVE InsertInto(_, _, _, _)
InsertInto(sorted, x, order, z) ==
    IF sorted = << >> THEN << x >>
    ELSE LET last == sorted[Len(sorted)]
         IN  IF SortCompare(last, x, order, z) > 0
             THEN Append(InsertInto(SubSeq(sorted, 1, Len(sorted) - 1), x, order, z),
                         last)
             ELSE Append(sorted, x)

RECURSIVE InsertionSort(_, _, _)
InsertionSort(list, order, z) ==
    IF list = << >> THEN << >>
    ELSE InsertInto(InsertionSort(SubSeq(list, 1, Len(list) - 1), order, z),
                    list[Len(list)], order, z)

\* merge of two adjacent runs: the right-hand record goes first only when it
\* compares less than the left-hand one
RECURSIVE Merge(_, _, _, _)
Merge(l, r, order, z) ==
    IF l = << >> THEN r
    ELSE IF r = << >> THEN l
    ELSE IF SortCompare(Head(r), Head(l), order, z) < 0
         THEN << Head(r) >> \o Merge(l, Tail(r), order, z)
         ELSE << Head(l) >> \o Merge(Tail(l), r, order, z)

\* one pass over the array: adjacent runs of `width` records are merged
RECURSIVE MergePass(_, _, _, _)
MergePass(list, width, order, z) ==
    IF Len(list) <= width THEN list
    ELSE LET n == Len(list)
             m == IF 2 * width < n THEN 2 * width ELSE n
         IN  Merge(SubSeq(list, 1, width), SubSeq(list, width + 1, m), order, z)
             \o MergePass(SubSeq(list, m + 1, n), width, order, z)

RECURSIVE MergeSort(_, _, _, _)
MergeSort(list, width, order, z) ==
    IF width >= Len(list) THEN list
    ELSE MergeSort(MergePass(list, width, order, z), 2 * width, order, z)

ArraySort(alg, list, order, z) ==
    IF alg = "insertion" THEN InsertionSort(list, order, z)
    ELSE MergeSort(list, 1, order, z)

\* a status test that ignores the case of the filter
StatusMatchesAnyCase(p, filter, clock, z) ==
    getExpiryStatus(p.expiryDate, clock, z).status =
        (IF filter = "Soon" THEN "soon" ELSE filter)

\* the status test filterByExpiryStatus applies to a record
StatusMatches(p, filter, clock, z) ==
    getExpiryStatus(p.expiryDate, clock, z).status = filter

\* the expiry values of the records: none, unparseable, an earlier and a
\* later date
ListValues ==
    { Absent("null"), Absent("malformed"), DateOnly(1), DateOnly(SoonDays + 2) }

ProductLists ==
    UNION { { [ i \in 1..n |-> Product(i, f[i]) ] : f \in [ 1..n -> ListValues ] }
            : n \in 0..MaxLen }

ListInit ==
    /\ SwQuiet
    /\ expiryDate = NoInput
    /\ expOut = NoResult
    /\ now = HoursPerDay + 9
    /\ zone \in { z \in Zones : z.shift = 0 /\ z.off <= 0 }
    /\ products \in ProductLists
    /\ listArg = "none"
    /\ listOut = NoList
    /\ AlertIdle

\* sortByExpiry(products, order) is called and returns a sorted copy
SortByExpiry(order, alg) ==
    /\ listOut = NoList
    /\ listArg' = order
    /\ listOut' = [ op |-> "sort", value |-> ArraySort(alg, products, order, zone),
                    same |-> FALSE ]
    /\ UNCHANGED << products, expiryDate, now, zone, expOut, alertVars, lifeVars,
                    cacheVars,
                    h, nFetch >>

\* filterByExpiryStatus(products, filter) is called and returns: the array
\* itself for 'all', otherwise a new array of the records with that status
FilterByExpiryStatus(filter) ==
    /\ listOut = NoList
    /\ listArg' = filter
    /\ listOut' =
         IF filter = "all"
         THEN [ op |-> "filter", value |-> products, same |-> TRUE ]
         ELSE [ op |-> "filter",
                value |-> SelectSeq(products,
                                    LAMBDA p : StatusMatches(p, filter, now, zone)),
                same |-> FALSE ]
    /\ UNCHANGED << products, expiryDate, now, zone, expOut, alertVars, lifeVars,
                    cacheVars,
                    h, nFetch >>

\* getExpiredProducts() of db.js: the records whose date, as new Date reads
\* it, is before today's local midnight; a comparison with an invalid date is
\* false (db.js 226-237)
getExpiredProducts(list, clock, z) ==
    SelectSeq(list, LAMBDA p :
        /\ ~IsFalsy(p.expiryDate)
        /\ NewDate(z, p.expiryDate).valid
        /\ NewDate(z, p.expiryDate).t < SetHoursZero(z, clock))

\* getExpiringProducts(days) of db.js: the records whose date lies between
\* the clock reading and the same time of day `days` days later (db.js 211-221)
getExpiringProducts(list, days, clock, z) ==
    LET limitDate == FromLocal(z, LocalHours(z, clock) + HoursPerDay * days)
    IN  SelectSeq(list, LAMBDA p :
            /\ ~IsFalsy(p.expiryDate)
            /\ NewDate(z, p.expiryDate).valid
            /\ NewDate(z, p.expiryDate).t <= limitDate
            /\ NewDate(z, p.expiryDate).t >= clock)

\* getAlertsSummary() is called and returns: the records of both queries are
\* counted, or zeros are returned when a query rejected
\* (notifications.js 175-189)
GetAlertsSummary(ok) ==
    /\ listOut = NoList
    /\ listOut' =
         IF ok
         THEN [ op |-> "summary",
                value |-> getExpiredProducts(products, now, zone)
                          \o getExpiringProducts(products, SoonDays, now, zone),
                same |-> FALSE ]
         ELSE [ op |-> "summary-failed", value |-> << >>, same |-> FALSE ]
    /\ UNCHANGED << products, listArg, expiryDate, now, zone, expOut, alertVars,
                    lifeVars, cacheVars, h, nFetch >>

ListNext ==
    \/ \E order \in {"asc", "desc"}, alg \in {"insertion", "merge"} :
            SortByExpiry(order, alg)
    \/ \E filter \in {"all", "expired", "soon", "ok", "unknown", "Soon"} :
            FilterByExpiryStatus(filter)
    \/ \E ok \in BOOLEAN : GetAlertsSummary(ok)

ListSpec == ListInit /\ [][ListNext]_vars

(* ------------------------------------------------------------------ *)
(* notifications.js: checkExpiryAlerts (101-148)                       *)
(* ------------------------------------------------------------------ *)
AlertInit ==
    /\ SwQuiet
    /\ expiryDate = NoInput
    /\ expOut = NoResult
    /\ products = << >>
    /\ listArg = "none"
    /\ listOut = NoList
    /\ now = 9
    /\ zone \in { z \in Zones : z.name = "UTC" }
    /\ localStorage \in [ enabled : BOOLEAN, lastCheck : {NoDay, 0} ]
    /\ calls = [ i \in 1..MaxCalls |-> NoCall ]
    /\ alertLog = [ queries |-> 0, shown |-> 0 ]

\* checkExpiryAlerts is invoked (at load, on visibilitychange or by the hourly
\* timer) and runs to its first await: it returns when notifications are off
\* or the stored day is today's, otherwise it calls getExpiredProducts
CheckStart(i) ==
    /\ calls[i].pc = "idle"
    /\ LET today == LocalDay(zone, now)
       IN  calls' = [ calls EXCEPT ![i] =
                        IF ~localStorage.enabled \/ localStorage.lastCheck = today
                        THEN [ @ EXCEPT !.pc = "done" ]
                        ELSE [ @ EXCEPT !.pc = "expired", !.today = today ] ]
    /\ UNCHANGED << localStorage, alertLog, expiryDate, now, zone, expOut, listVars,
                    lifeVars, cacheVars, h, nFetch >>

\* a getExpiredProducts that, on rejection, records the day as checked
QueryExpiredMarksDay(i, ok, n) ==
    /\ calls[i].pc = "expired"
    /\ calls' = [ calls EXCEPT ![i] =
                    IF ok THEN [ @ EXCEPT !.pc = "expiring", !.expired = n ]
                    ELSE [ @ EXCEPT !.pc = "failed" ] ]
    /\ alertLog' = [ alertLog EXCEPT !.queries = @ + 1 ]
    /\ localStorage' = IF ok THEN localStorage
                       ELSE [ localStorage EXCEPT !.lastCheck = calls[i].today ]
    /\ UNCHANGED << expiryDate, now, zone, expOut, listVars,
                    lifeVars, cacheVars, h, nFetch >>

\* getExpiredProducts settles: a rejection is caught and logged and the
\* invocation returns ("failed"), otherwise getExpiringProducts(3) is called
QueryExpired(i, ok, n) ==
    /\ calls[i].pc = "expired"
    /\ calls' = [ calls EXCEPT ![i] =
                    IF ok THEN [ @ EXCEPT !.pc = "expiring", !.expired = n ]
                    ELSE [ @ EXCEPT !.pc = "failed" ] ]
    /\ alertLog' = [ alertLog EXCEPT !.queries = @ + 1 ]
    /\ UNCHANGED << localStorage, expiryDate, now, zone, expOut, listVars,
                    lifeVars, cacheVars, h, nFetch >>

\* getExpiringProducts settles: a rejection is caught and logged and the
\* invocation returns ("failed"); otherwise a notification is shown for each
\* non-empty result and the day read at the start is stored
QueryExpiring(i, ok, n) ==
    /\ calls[i].pc = "expiring"
    /\ calls' = [ calls EXCEPT ![i].pc = IF ok THEN "done" ELSE "failed" ]
    /\ alertLog' = IF ok /\ localStorage.enabled /\ (calls[i].expired > 0 \/ n > 0)
                   THEN [ alertLog EXCEPT !.shown = @ + 1 ]
                   ELSE alertLog
    /\ localStorage' = IF ok THEN [ localStorage EXCEPT !.lastCheck = calls[i].today ]
                       ELSE localStorage
    /\ UNCHANGED << expiryDate, now, zone, expOut, listVars, lifeVars, cacheVars,
                    h, nFetch >>

\* the calendar day ends: the invocations that returned can be made again and
\* the account of the day starts anew
Midnight ==
    /\ LocalDay(zone, now) < 1
    /\ now' = now + HoursPerDay
    /\ calls' = [ i \in 1..MaxCalls |->
                    IF calls[i].pc \in {"done", "failed"} THEN NoCall ELSE calls[i] ]
    /\ alertLog' = [ queries |-> 0, shown |-> 0 ]
    /\ UNCHANGED << localStorage, expiryDate, zone, expOut, listVars, lifeVars,
                    cacheVars, h, nFetch >>

AlertNext ==
    \/ \E i \in 1..MaxCalls : CheckStart(i)
    \/ \E i \in 1..MaxCalls, ok \in BOOLEAN, n \in 0..1 : QueryExpired(i, ok, n)
    \/ \E i \in 1..MaxCalls, ok \in BOOLEAN, n \in 0..1 : QueryExpiring(i, ok, n)
    \/ Midnight

AlertSpec == AlertInit /\ [][AlertNext]_vars

(* ------------------------------------------------------------------ *)
(* Properties                                                          *)
(* ------------------------------------------------------------------ *)
\* the step in which the promise given to respondWith by call s settles
Returns(s) == h[s].result = Pending /\ h'[s].result # Pending

\* the step in which fetch event s is dispatched
Dispatched(s) == nFetch' = nFetch + 1 /\ h'[s] # h[s] /\ h'[s].pc # "idle"

SameOriginGet(rec) == rec.origin = LocationOrigin /\ rec.method = "GET"

\* C1: for every intercepted same-origin GET request, whatever the partitions
\* hold and whether the fetch succeeds or fails, the promise handed to
\* respondWith resolves to a response: never to undefined (and never rejects).
C1_AlwaysResponds ==
    \A s \in Slots : h[s].responded => h[s].result # Undefined

\* C2: for each strategy, when no partition holds an entry for the request and
\* the fetch fails, the call returns the offline fallback, the cached entry of
\* OFFLINE_PAGE.
C2_OfflineFallback ==
    [][ \A s \in Slots :
          ( /\ Returns(s)
            /\ h'[s].net = NetFail
            /\ MatchIn(cacheList, content, h[s].req) = Undefined
            /\ MatchIn(cacheList, content, OFFLINE_PAGE) # Undefined )
          => h'[s].result = MatchIn(cacheList, content, OFFLINE_PAGE) ]_vars

\* C3: when the fetch of a manifest resource fails during install, the promise
\* given to waitUntil rejects, the instance reaches none of installed,
\* activating, activated, and it never takes control.
C3_InstallFailureBlocks ==
    installOutcome = "failed" =>
        /\ installPromise = "rejected"
        /\ swState \notin {"installed", "activating", "activated"}
        /\ controller # "this"

\* C4 (as claimed): once every deletion of the activate handler has resolved,
\* the partitions that remain are exactly the ones named STATIC_CACHE or
\* DYNAMIC_CACHE that existed when the activate event fired.
C4_ActivationPurge ==
    actPc = "claim" =>
        Range(cacheList) = actPre \cap {STATIC_CACHE, DYNAMIC_CACHE}

\* C4 (amended): the same, provided no clearCache message was handled while
\* the activation was in progress.
C4_ActivationPurgeUndisturbed ==
    (actPc = "claim" /\ ~actCleared) =>
        Range(cacheList) = actPre \cap {STATIC_CACHE, DYNAMIC_CACHE}

\* an activation that found an outdated partition and a current one
C4_Witness ==
    /\ actPc = "claim"
    /\ ~actCleared
    /\ OLD_CACHE \in actPre
    /\ DYNAMIC_CACHE \in actPre
    /\ STATIC_CACHE \in actPre

\* C5: after a successful install and activation, a navigation request for '/'
\* or '/index.html' made while the network fails is answered with the cached
\* app-shell document, also when the dynamic partition has no entry for it.
C5_ShellOffline ==
    \A s \in Slots :
        ( /\ h[s].strat = "staleWhileRevalidate"
          /\ h[s].req \in {P_ROOT, P_INDEX}
          /\ h[s].pc = "done"
          /\ h[s].net = NetFail
          /\ installOutcome = "ok"
          /\ CacheMatch(content[STATIC_CACHE], h[s].req) # Undefined )
        => (h[s].result.ok /\ h[s].result.url = h[s].req)

\* C6: a request to another origin, or with a method other than GET, is not
\* passed to respondWith and makes the worker read no cache, write no cache and
\* fetch nothing: its dispatch leaves the partitions as they are and its record
\* never changes afterwards.
C6_Bypass ==
    [][ \A s \in Slots :
          /\ (Dispatched(s) /\ ~SameOriginGet(h'[s])) =>
                /\ ~h'[s].responded
                /\ h'[s].pc = "done"
                /\ h'[s].ops = <<>>
                /\ h'[s].put = "none"
                /\ h'[s].result = Pending
                /\ cacheList' = cacheList
                /\ content' = content
          /\ (h[s].pc # "idle" /\ ~SameOriginGet(h[s]) /\ nFetch' = nFetch) =>
                h'[s] = h[s] ]_vars

\* a POST request has been dispatched to the worker
C6_Witness ==
    /\ \E s \in Slots : h[s].pc = "done" /\ h[s].method = "POST"
    /\ STATIC_CACHE \in Range(cacheList)


\* the state RouteSpec starts in is a state of the worker
RouteInitReached ==
    /\ swState = "activated" /\ controller = "this" /\ skipWaitingFlag
    /\ instPc = "done" /\ instRef = "none" /\ installOutcome = "ok"
    /\ installPromise = "resolved" /\ actPc = "done" /\ actNames = {}
    /\ actPre = {} /\ ~actCleared /\ cacheList = <<STATIC_CACHE>>
    /\ content[STATIC_CACHE] = { Resp(u, TRUE, "A") : u \in Range(STATIC_ASSETS) }
    /\ \A s \in Slots : h[s] = IdleRec
    /\ nFetch = 0

\* the extensions and the table of claim C7
ClaimedStaticExts ==
    { <<".","c","s","s">>, <<".","j","s">>, <<".","p","n","g">>,
      <<".","j","p","g">>, <<".","j","p","e","g">>, <<".","w","e","b","p">>,
      <<".","s","v","g">>, <<".","i","c","o">>, <<".","w","o","f","f">>,
      <<".","w","o","f","f","2">> }

ClaimedStrategy(path) ==
    IF \E e \in ClaimedStaticExts : EndsWith(path, e) THEN "cacheFirst"
    ELSE IF EndsWith(path, <<".","h","t","m","l">>) \/ path = <<"/">>
    THEN "staleWhileRevalidate"
    ELSE "networkFirst"

\* C7: every same-origin GET request is given exactly one strategy, chosen from
\* its path: a static extension goes to cacheFirst, otherwise '.html' or '/'
\* goes to staleWhileRevalidate, every other path to networkFirst; the call
\* then stands at the first step of that strategy.
C7_Routing ==
    \A s \in Slots :
        (h[s].pc # "idle" /\ SameOriginGet(h[s])) =>
            /\ h[s].strat = ClaimedStrategy(h[s].req)
            /\ h[s].responded
            /\ h[s].pc = CASE h[s].strat = "cacheFirst" -> "cf_match"
                           [] h[s].strat = "networkFirst" -> "nf_fetch"
                           [] OTHER -> "swr_open"

\* the root path and a font have been routed
C7_Witness ==
    /\ \E s \in Slots : /\ h[s].req = <<"/">>
                        /\ SameOriginGet(h[s])
                        /\ h[s].strat = "staleWhileRevalidate"
    /\ \E s \in Slots : /\ h[s].req = <<"/","a",".","w","o","f","f","2">>
                        /\ SameOriginGet(h[s])
                        /\ h[s].strat = "cacheFirst"

PutLands(s) == h[s].put = "pending" /\ h'[s].put = "landed"

\* the call of strategy strat returns the ok response it got from the network
ReturnsNetworkOk(s, strat) ==
    /\ Returns(s)
    /\ h'[s].strat = strat
    /\ h'[s].net.ok
    /\ h'[s].result = h'[s].net

\* C9 (as claimed): when cacheFirst returns an ok network response after a
\* miss, the dynamic partition already holds the copy under the request's key.
C9_StoredWhenReturned ==
    [][ \A s \in Slots :
          ReturnsNetworkOk(s, "cacheFirst") =>
            CacheMatch(content'[DYNAMIC_CACHE], h'[s].req) = h'[s].result ]_vars

\* C9 (amended): when cacheFirst returns an ok network response after a miss,
\* the dynamic partition exists and cache.put has been called for the copy
\* under the request's key but has not landed; when that write lands in the
\* partition, the partition holds the copy.
C9_PutCalledWhenReturned ==
    [][ \A s \in Slots :
          /\ ReturnsNetworkOk(s, "cacheFirst") =>
                /\ h'[s].put = "pending"
                /\ h'[s].ops = <<"match", "fetch", "open", "put">>
                /\ DYNAMIC_CACHE \in Range(cacheList')
          /\ (PutLands(s) /\ h[s].strat = "cacheFirst" /\ h[s].ref = 0) =>
                CacheMatch(content'[DYNAMIC_CACHE], h[s].req) = h[s].net ]_vars

\* cacheFirst has returned a network response that is not yet in the partition
C9_Witness ==
    \E s \in Slots :
        /\ h[s].strat = "cacheFirst"
        /\ h[s].pc = "done"
        /\ h[s].result.ok
        /\ h[s].put = "pending"
        /\ CacheMatch(content[DYNAMIC_CACHE], h[s].req) = Undefined

\* C10 (as claimed): networkFirst fetches before any cache lookup, and when it
\* returns an ok network response the dynamic partition holds that response.
C10_StoredWhenReturned ==
    [][ \A s \in Slots :
          /\ (h'[s].strat = "networkFirst" /\ h'[s].ops # <<>>) =>
                Head(h'[s].ops) = "fetch"
          /\ ReturnsNetworkOk(s, "networkFirst") =>
                CacheMatch(content'[DYNAMIC_CACHE], h'[s].req) = h'[s].result ]_vars

\* C10 (amended): networkFirst fetches before any cache lookup; when it returns
\* an ok network response the dynamic partition exists and cache.put has been
\* called for the copy under the request's key but has not landed; when that
\* write lands in the partition, the partition holds that response.
C10_PutCalledWhenReturned ==
    [][ \A s \in Slots :
          /\ (h'[s].strat = "networkFirst" /\ h'[s].ops # <<>>) =>
                Head(h'[s].ops) = "fetch"
          /\ ReturnsNetworkOk(s, "networkFirst") =>
                /\ h'[s].put = "pending"
                /\ h'[s].ops = <<"fetch", "open", "put">>
                /\ DYNAMIC_CACHE \in Range(cacheList')
          /\ (PutLands(s) /\ h[s].strat = "networkFirst" /\ h[s].ref = 0) =>
                CacheMatch(content'[DYNAMIC_CACHE], h[s].req) = h[s].net ]_vars

\* the write of a networkFirst call has replaced an older entry of the key
C10_Witness ==
    \E s \in Slots :
        /\ h[s].strat = "networkFirst"
        /\ h[s].put = "landed"
        /\ h[s].req = P_MANIFEST
        /\ CacheMatch(content[DYNAMIC_CACHE], h[s].req) = h[s].net
        /\ h[s].net.body = "B"
        /\ Resp(P_MANIFEST, TRUE, "Z") \in InitContent[DYNAMIC_CACHE]

\* networkFirst's step in which its fetch is found to have failed
NfFetchFailed(s) ==
    h[s].pc = "nf_fetch" /\ h'[s].pc # "nf_fetch" /\ h'[s].net = NetFail

\* some partition holds an entry for the request of call s
HeldSomewhere(s) ==
    \E n \in Range(cacheList) : CacheMatch(content[n], h[s].req) # Undefined

\* C11 (as claimed): when networkFirst's fetch fails and a partition holds an
\* entry for the request, a cached entry is returned, and it is the dynamic
\* partition's entry when both the dynamic and the static partition hold one.
C11_DynamicBeforeStatic ==
    [][ \A s \in Slots :
          (NfFetchFailed(s) /\ HeldSomewhere(s)) =>
            /\ h'[s].pc = "done"
            /\ \E n \in Range(cacheList) :
                  h'[s].result = CacheMatch(content[n], h[s].req)
            /\ h'[s].result # Undefined
            /\ ( /\ CacheMatch(content[DYNAMIC_CACHE], h[s].req) # Undefined
                 /\ CacheMatch(content[STATIC_CACHE], h[s].req) # Undefined )
               => h'[s].result = CacheMatch(content[DYNAMIC_CACHE], h[s].req) ]_vars

\* C11 (amended): when networkFirst's fetch fails and a partition holds an
\* entry for the request, the entry returned is the one of the partition
\* created earliest among those holding one (the order of caches.keys()); the
\* static partition, created by install, is consulted before a dynamic
\* partition created later.
C11_OldestPartitionFirst ==
    [][ \A s \in Slots :
          (NfFetchFailed(s) /\ HeldSomewhere(s)) =>
            /\ h'[s].pc = "done"
            /\ h'[s].ops = <<"fetch", "match">>
            /\ \E i \in 1..Len(cacheList) :
                  /\ CacheMatch(content[cacheList[i]], h[s].req) # Undefined
                  /\ h'[s].result = CacheMatch(content[cacheList[i]], h[s].req)
                  /\ \A j \in 1..(i - 1) :
                        CacheMatch(content[cacheList[j]], h[s].req) = Undefined ]_vars

\* networkFirst has returned the static partition's entry although the dynamic
\* partition holds a newer one
C11_Witness ==
    \E s \in Slots :
        /\ h[s].strat = "networkFirst"
        /\ h[s].pc = "done"
        /\ h[s].net = NetFail
        /\ h[s].result = Resp(h[s].req, TRUE, "A")
        /\ h[s].result \in content[STATIC_CACHE]
        /\ Resp(h[s].req, TRUE, "B") \in content[DYNAMIC_CACHE]

\* staleWhileRevalidate's step in which its cache.match resolves and it returns
SwrLooksUp(s) == h[s].pc = "swr_match" /\ h'[s].pc = "swr_fetch"

SwrRevalidated(s) ==
    /\ h[s].pc = "swr_fetch"
    /\ h'[s].pc = "done"
    /\ h[s].cached # Undefined
    /\ h'[s].net.ok
    /\ h'[s].net # h[s].cached

\* C13 (as claimed): given a cached entry and a network that returns a
\* different ok response, the call returns the cached entry, and once the
\* background fetch has settled the dynamic partition's entry is the network's
\* response.
C13_FreshWhenSettled ==
    [][ \A s \in Slots :
          SwrRevalidated(s) =>
            /\ h'[s].result = h[s].cached
            /\ CacheMatch(content'[DYNAMIC_CACHE], h[s].req) = h'[s].net ]_vars

\* C13 (amended): given a cached entry and a network that returns a different
\* ok response, the call returns the cached entry and the fetch is started
\* although the cache hit; when the fetch settles cache.put is called for the
\* network's response without being awaited; once that write has landed in the
\* dynamic partition its entry is the network's response, which is what a
\* lookup of a later staleWhileRevalidate call then finds.
C13_FreshWhenWritten ==
    [][ \A s \in Slots :
          /\ SwrRevalidated(s) =>
                /\ h'[s].result = h[s].cached
                /\ h'[s].put = "pending"
                /\ h'[s].ops = <<"open", "match", "fetch", "put">>
          /\ ( /\ PutLands(s)
               /\ h[s].strat = "staleWhileRevalidate"
               /\ h[s].ref = 0 )
             => /\ CacheMatch(content'[DYNAMIC_CACHE], h[s].req) = h[s].net
                /\ \A t \in Slots :
                      (h[t].pc = "swr_match" /\ h[t].ref = 0 /\ h[t].req = h[s].req)
                      => SwrEarly(CacheMatch(content'[DYNAMIC_CACHE], h[t].req))
                           = h[s].net ]_vars

\* a first call returned the stale copy and its write has landed; a later call
\* for the same request got the fresh response from the cache
C13_Witness ==
    \E s, t \in Slots :
        /\ s # t
        /\ h[s].strat = "staleWhileRevalidate"
        /\ h[t].strat = "staleWhileRevalidate"
        /\ h[s].req = h[t].req
        /\ h[s].result = Resp(h[s].req, TRUE, "Z")
        /\ h[s].net = Resp(h[s].req, TRUE, "B")
        /\ h[s].put = "landed"
        /\ h[t].pc = "swr_fetch"
        /\ h[t].net = Pending
        /\ h[t].result = h[s].net

\* staleWhileRevalidate's step in which its background fetch is found to have
\* failed
SwrFetchFailed(s) ==
    h[s].pc = "swr_fetch" /\ h'[s].pc = "done" /\ h'[s].net = NetFail

\* C14: when staleWhileRevalidate's background fetch fails, the partitions and
\* their entries are left exactly as they were and no write is issued, the
\* call's promise does not reject, and a value already handed to the caller
\* stays as it was.
C14_FailedRevalidation ==
    [][ \A s \in Slots :
          SwrFetchFailed(s) =>
            /\ content' = content
            /\ cacheList' = cacheList
            /\ h'[s].put = "none"
            /\ h'[s].ops = <<"open", "match", "fetch">>
            /\ h'[s].result # Rejected
            /\ h'[s].result # NetFail
            /\ h[s].result # Pending => h'[s].result = h[s].result ]_vars

\* a call that returned the cached copy has seen its background fetch fail, and
\* the copy is still the partition's entry
C14_Witness ==
    \E s \in Slots :
        /\ h[s].strat = "staleWhileRevalidate"
        /\ h[s].pc = "done"
        /\ h[s].net = NetFail
        /\ h[s].result = Resp(h[s].req, TRUE, "Z")
        /\ CacheMatch(content[DYNAMIC_CACHE], h[s].req) = h[s].result

\* an operation of the cache store rejected during the call
StoreFailed(rec) ==
    \E i \in 1..Len(rec.ops) : rec.ops[i] \in {"match-rejected", "open-rejected"}

\* C15: when an operation of the cache store rejects during a call while the
\* network is reachable, the call still ends with the network's response for
\* the request: not a rejection, not a cached entry, not the offline fallback.
C15_DegradesToNetwork ==
    \A s \in Slots :
        (h[s].pc = "done" /\ StoreFailed(h[s])) =>
            /\ h[s].result # Rejected
            /\ h[s].result \in ReachableOutcomes(h[s].req)
            /\ h[s].net.ok => h[s].result = h[s].net

C17_ClearCacheDeletesAll ==
    [][ MsgEvent("clearCache") =>
          /\ cacheList' = <<>>
          /\ \A n \in CacheNames : content'[n] = {} ]_vars

\* a clearCache handled before the activate handler's own deletions has removed
\* an old partition and the static partition
C17_Witness ==
    /\ actCleared
    /\ actPc = "keys"
    /\ {OLD_CACHE, STATIC_CACHE} \subseteq actPre
    /\ cacheList = <<>>

\* the partitions, the lifecycle state and the calls in progress are unchanged
ProgramUnchanged ==
    /\ cacheList' = cacheList
    /\ content' = content
    /\ swState' = swState
    /\ controller' = controller
    /\ h' = h

\* the instance waits, or will wait once installed, for the pages of the
\* previous version to close
WillWait(state, ctl, flag) ==
    state \in {"installing", "installed"} /\ ctl = "prev" /\ ~flag

\* the idempotence of the two commands: each leaves a state in which handling
\* it again changes nothing
Idempotent ==
    /\ MsgEvent("clearCache") => cacheList' = <<>>
    /\ (MsgEvent("clearCache") /\ cacheList = <<>>) =>
          (ProgramUnchanged /\ skipWaitingFlag' = skipWaitingFlag)
    /\ MsgEvent("skipWaiting") => skipWaitingFlag'
    /\ (MsgEvent("skipWaiting") /\ skipWaitingFlag) =>
          (ProgramUnchanged /\ skipWaitingFlag')

\* C18 (as claimed): both commands are idempotent, and 'skipWaiting' handled
\* when no instance is waiting changes neither the partitions nor the
\* lifecycle, including whether the instance will wait.
C18_NoOpWithoutWaiting ==
    [][ /\ Idempotent
        /\ (MsgEvent("skipWaiting") /\ swState # "installed") =>
              /\ ProgramUnchanged
              /\ WillWait(swState', controller', skipWaitingFlag')
                   = WillWait(swState, controller, skipWaitingFlag) ]_vars

\* C18 (amended): both commands are idempotent; 'skipWaiting' handled by an
\* activating or active instance changes neither the partitions nor the
\* lifecycle; handled by an installing instance it changes no partition and no
\* lifecycle state at once but sets the skip-waiting flag, so that the instance
\* will not wait once installed.
C18_NoOpOnceActive ==
    [][ /\ Idempotent
        /\ (MsgEvent("skipWaiting") /\ swState \in {"activating", "activated"}) =>
              /\ ProgramUnchanged
              /\ WillWait(swState', controller', skipWaitingFlag')
                   = WillWait(swState, controller, skipWaitingFlag)
        /\ (MsgEvent("skipWaiting") /\ swState = "installing") =>
              /\ ProgramUnchanged
              /\ ~WillWait(swState', controller', skipWaitingFlag') ]_vars

\* an installing instance received 'skipWaiting' while a previous version is
\* in control
C18_Witness ==
    /\ swState = "installing"
    /\ controller = "prev"
    /\ skipWaitingFlag

\* getExpiryStatus has returned
Classified == expOut # NoResult

\* C19: for an absent expiry date (null, undefined or the empty string)
\* getExpiryStatus returns status 'unknown' with the label 'Sin fecha',
\* whatever the clock reading and the zone.
C19_AbsentIsUnknown ==
    (Classified /\ expiryDate.kind \in {"null", "undefined", "empty"}) =>
        /\ expOut.days = Null
        /\ expOut.st.status = "unknown"
        /\ expOut.st.label = "Sin fecha"
        /\ expOut.st.class = ""

\* the empty string has been classified
C19_Witness ==
    /\ Classified
    /\ expiryDate = Absent("empty")
    /\ expOut.st.status = "unknown"

\* the calendar day an expiry value names
NamedDay(v) == v.day

\* C20: an expiry date that names the current calendar day of the device gives
\* 0 days remaining and status 'expired' with the label '¡Caduca hoy!'.
C20_SameDayIsToday ==
    ( /\ Classified
      /\ expiryDate.kind \in {"dateOnly", "localDateTime"}
      /\ NamedDay(expiryDate) = LocalDay(zone, now) )
    => /\ expOut.days = Num(0)
       /\ expOut.st.status = "expired"
       /\ expOut.st.label = "¡Caduca hoy!"

\* a parseable expiry value has been classified
DatedClassified ==
    Classified /\ expiryDate.kind \in {"dateOnly", "localDateTime"}

\* calendar days from the current local day to the day the expiry value names
DaysAhead == NamedDay(expiryDate) - LocalDay(zone, now)

\* C21: an expiry date on a calendar day before the current one gives a
\* negative number of days and status 'expired' with the label that reports
\* the absolute value of that number as days ago.
C21_PastIsExpired ==
    (DatedClassified /\ DaysAhead < 0)
    => /\ expOut.days.kind = "num"
       /\ expOut.days.n < 0
       /\ expOut.st.status = "expired"
       /\ expOut.st.label = "Caducado hace N día(s)"
       /\ expOut.st.shown = Num(Abs(expOut.days.n))

\* C22: an expiry date 1 to 7 calendar days after the current day gives status
\* 'soon' and that number of days remaining.
C22_WithinWeekIsSoon ==
    (DatedClassified /\ DaysAhead \in 1..SoonDays)
    => /\ expOut.st.status = "soon"
       /\ expOut.days = Num(DaysAhead)
       /\ expOut.st.shown = Num(DaysAhead)

\* C23: an expiry date 8 or more calendar days after the current day gives
\* status 'ok', and no date 7 or fewer days away gives status 'ok'.
C23_FreshOnlyBeyondWeek ==
    DatedClassified
    => /\ (DaysAhead > SoonDays) => expOut.st.status = "ok"
       /\ (DaysAhead <= SoonDays) => expOut.st.status # "ok"

\* C24: a non-empty expiry value that cannot be parsed is classified like an
\* absent one: status 'unknown' with the label 'Sin fecha'.
C24_MalformedIsUnknown ==
    (Classified /\ expiryDate.kind = "malformed")
    => /\ expOut.st.status = "unknown"
       /\ expOut.st.label = "Sin fecha"

\* C25: for an expiry value that carries a time of day, getDaysUntilExpiry
\* returns the number of calendar days from the current local day to the day
\* the value names, whatever the two times of day are.
C25_CalendarDayDifference ==
    (Classified /\ expiryDate.kind = "localDateTime")
    => expOut.days = Num(DaysAhead)

\* what getExpiryStatus returns for v at the first instant of the current
\* local calendar day
AtDayStart(v) ==
    [ days |-> getDaysUntilExpiry(v, SetHoursZero(zone, now), zone),
      st |-> getExpiryStatus(v, SetHoursZero(zone, now), zone) ]

\* C26: what getExpiryStatus returns is fixed by its argument and the current
\* calendar day alone: whatever was evaluated before and whatever the time of
\* day, the result is the one for that argument on that day, so two
\* evaluations of one argument on one day are identical; a call changes
\* nothing but its own result.
C26_Deterministic ==
    /\ [](Classified => expOut = AtDayStart(expiryDate))
    /\ [][ /\ (Classified /\ Classified' /\ expiryDate' = expiryDate)
              => expOut' = expOut
           /\ (now' = now)
              => UNCHANGED << zone, listVars, alertVars, lifeVars,
                    cacheVars, h, nFetch >> ]_vars

\* a date has been evaluated late in the day, after the clock moved within
\* that day
C26_Witness ==
    /\ Classified
    /\ expiryDate = DateOnly(SoonDays)
    /\ expOut.st.status = "soon"
    /\ now = HoursPerDay * 3 + 23

\* sortByExpiry has returned
Sorted == listOut.op = "sort"

\* the record has no expiry date
Undated(p) == p.expiryDate.kind \in {"null", "undefined", "empty"}

\* where the record that was at place i of the input is in the output
PlaceOf(i) == CHOOSE k \in 1..Len(listOut.value) : listOut.value[k].id = i

\* C27: in the array sortByExpiry returns, for either order, no record without
\* an expiry date comes before a record that has one.
C27_UndatedLast ==
    Sorted =>
        \A i, j \in 1..Len(listOut.value) :
            (Undated(listOut.value[i]) /\ ~Undated(listOut.value[j])) => j < i

\* an array that began with an undated record was sorted in descending order
\* and ends with it, the dated records before it
C27_Witness ==
    /\ Sorted
    /\ listArg = "desc"
    /\ Len(products) = 3
    /\ Undated(products[1])
    /\ products[2].expiryDate = DateOnly(1)
    /\ products[3].expiryDate = DateOnly(SoonDays + 2)
    /\ listOut.value = << products[3], products[2], products[1] >>

\* two records have the same expiry date, or both have none
SameKey(a, b) ==
    \/ Undated(a) /\ Undated(b)
    \/ /\ a.expiryDate.kind \in {"dateOnly", "localDateTime"}
       /\ b.expiryDate.kind \in {"dateOnly", "localDateTime"}
       /\ NewDate(zone, a.expiryDate) = NewDate(zone, b.expiryDate)

\* C28: sortByExpiry keeps two records with the same expiry date, or both
\* without one, in the order they had in the input, for either order.
C28_Stable ==
    Sorted =>
        \A i, j \in 1..Len(products) :
            (i < j /\ SameKey(products[i], products[j])) => PlaceOf(i) < PlaceOf(j)

\* filterByExpiryStatus has returned
Filtered == listOut.op = "filter"

\* C29: with filter 'all' filterByExpiryStatus returns the input array itself;
\* with any other filter it returns, in input order, exactly the records whose
\* status is the filter string, compared case-sensitively.
C29_FilterExact ==
    Filtered =>
        IF listArg = "all"
        THEN listOut.same /\ listOut.value = products
        ELSE LET out == listOut.value
             IN  /\ \A k \in 1..Len(out) :
                      /\ out[k].id \in 1..Len(products)
                      /\ out[k] = products[out[k].id]
                      /\ getExpiryStatus(out[k].expiryDate, now, zone).status = listArg
                 /\ \A k, l \in 1..Len(out) : k < l => out[k].id < out[l].id
                 /\ \A i \in 1..Len(products) :
                      getExpiryStatus(products[i].expiryDate, now, zone).status = listArg
                      => \E k \in 1..Len(out) : out[k].id = i

\* the filter 'soon' kept the second and fourth of four records
C29_Witness ==
    /\ Filtered
    /\ listArg = "soon"
    /\ Len(products) = 4
    /\ Len(listOut.value) = 2
    /\ listOut.value[1].id = 2
    /\ listOut.value[2].id = 4

\* C30: on one calendar day the expired/expiring queries are started at most
\* once and alert notifications are shown by at most one invocation of
\* checkExpiryAlerts, however the invocations interleave.
C30_OncePerDay ==
    /\ alertLog.queries <= 1
    /\ alertLog.shown <= 1

\* the entries a partition holds under a key
EntriesFor(cont, name, url) == { e \in cont[name] : e.url = url }

\* C31 as stated: whenever a write of a strategy lands, the dynamic partition
\* holds under the request's key exactly the response of that write, so after
\* two writes for one URL the entry is the response written last and is never
\* absent.
C31_LastWriteWins ==
    [][ \A s \in Slots :
          PutLands(s) =>
            EntriesFor(content', DYNAMIC_CACHE, h[s].req) = { h[s].net } ]_vars

\* C31: a write that lands while the Cache object it was called on is still
\* the dynamic partition replaces the entry under the request's key with its
\* own response, whole, and touches no other key; a write called on an object
\* whose partition was deleted since changes no partition.
C31_LastLiveWriteWins ==
    [][ \A s \in Slots :
          PutLands(s) =>
            IF h[s].ref = 0
            THEN /\ EntriesFor(content', DYNAMIC_CACHE, h[s].req) = { h[s].net }
                 /\ \A e \in content[DYNAMIC_CACHE] \cup content'[DYNAMIC_CACHE] :
                       e.url # h[s].req
                       => (e \in content[DYNAMIC_CACHE] <=> e \in content'[DYNAMIC_CACHE])
                 /\ \A n \in CacheNames \ {DYNAMIC_CACHE} : content'[n] = content[n]
            ELSE content' = content ]_vars

\* two requests for one URL were handled together, the network gave revision B
\* to the first and C to the second, both writes have landed and the partition
\* holds one entry, a whole response of one of the two
C31_Witness ==
    /\ h[1].req = P_MANIFEST /\ h[2].req = P_MANIFEST
    /\ h[1].put = "landed" /\ h[2].put = "landed"
    /\ h[1].net = Resp(P_MANIFEST, TRUE, "B")
    /\ h[2].net = Resp(P_MANIFEST, TRUE, "C")
    /\ EntriesFor(content, DYNAMIC_CACHE, P_MANIFEST) = { h[1].net }

\* the fetch of call s settles to a response that is not ok
GetsErrorResponse(s) ==
    h[s].net = Pending /\ h'[s].net = ErrorResp(h[s].req)

\* C32: every entry of the dynamic partition is an ok response, and when the
\* network answers a strategy with a response that is not ok, no partition is
\* created or changed, no write is called, and a caller still waiting for its
\* response receives that response.
C32_OnlyOkStored ==
    /\ [](\A e \in content[DYNAMIC_CACHE] : e.ok)
    /\ [][ \A s \in Slots :
             GetsErrorResponse(s) =>
               /\ cacheList' = cacheList
               /\ content' = content
               /\ h'[s].put = "none"
               /\ h[s].result = Pending => h'[s].result = h'[s].net ]_vars

\* networkFirst has returned a 404 of the network and no dynamic partition
\* has been created
C32_Witness ==
    \E s \in Slots :
        /\ h[s].strat = "networkFirst"
        /\ h[s].pc = "done"
        /\ h[s].result = ErrorResp(P_MANIFEST)
        /\ h[s].put = "none"
        /\ DYNAMIC_CACHE \notin Range(cacheList)

\* no partition with a name other than the two current ones exists
NoOutdatedPartition == Range(cacheList) \subseteq {STATIC_CACHE, DYNAMIC_CACHE}

\* C33: when the activating instance calls clients.claim() every outdated
\* partition has been deleted, and so it is when the instance takes control
\* and whenever a fetch event is dispatched to it.
C33_PurgeBeforeClaim ==
    /\ [](actPc = "claim" => NoOutdatedPartition)
    /\ [][ /\ (controller # "this" /\ controller' = "this") => NoOutdatedPartition'
           /\ (\E s \in Slots : Dispatched(s)) => NoOutdatedPartition ]_vars

\* the instance took control after purging a partition of an earlier version
\* (the dynamic partition precedes the static one only when it was left by an
\* earlier session next to an outdated one) and a request is being handled
C33_Witness ==
    /\ controller = "this"
    /\ cacheList = << DYNAMIC_CACHE, STATIC_CACHE >>
    /\ \E s \in Slots : h[s].pc = "cf_match"

\* cacheFirst or networkFirst returns, in this step, the entry caches.match
\* found for the request
ServedFromCache(s) ==
    /\ h[s].pc \in {"cf_match", "nf_fetch"}
    /\ h'[s].pc = "done"
    /\ h'[s].cached # Undefined
    /\ h'[s].result = h'[s].cached

\* C34: an entry that cacheFirst or networkFirst serves from cache is an entry
\* of the current static or the current dynamic partition, also while the
\* static partition of another version exists.
C34_CurrentPartitionsOnly ==
    [][ \A s \in Slots :
          ServedFromCache(s) =>
            h'[s].result \in content[STATIC_CACHE] \cup content[DYNAMIC_CACHE] ]_vars

\* a step of one of the three strategies: a call performs an operation or a
\* write it called lands
StrategyStep == \E s \in Slots : h'[s].ops # h[s].ops \/ PutLands(s)

\* cacheFirst finds the request in the cache and returns the entry
CacheFirstHit(s) ==
    /\ h[s].pc = "cf_match"
    /\ h'[s].pc = "done"
    /\ h'[s].cached # Undefined

\* C35: no step of a strategy changes the static partition; its entries
\* change only when the install handler's addAll stores them or when the
\* partition is deleted; a cache hit of cacheFirst changes no partition and
\* calls no write.
C35_StaticWrittenByInstall ==
    [][ /\ StrategyStep => content'[STATIC_CACHE] = content[STATIC_CACHE]
        /\ content'[STATIC_CACHE] # content[STATIC_CACHE]
           => \/ instPc = "addAll" /\ instPc' = "done"
              \/ content'[STATIC_CACHE] = {}
        /\ \A s \in Slots :
             CacheFirstHit(s) =>
               /\ content' = content
               /\ cacheList' = cacheList
               /\ h'[s].put = "none" ]_vars

\* cacheFirst has served app.js from the static partition, which holds what
\* install stored, while a write of another call has landed in the dynamic one
C35_Witness ==
    /\ \E s \in Slots :
         /\ h[s].strat = "cacheFirst"
         /\ h[s].result = Resp(P_APP_JS, TRUE, "A")
         /\ h[s].put = "none"
    /\ \E t \in Slots : h[t].put = "landed"
    /\ content[STATIC_CACHE] = { Resp(u, TRUE, "A") : u \in Range(STATIC_ASSETS) }

\* the record is among those the two alert queries returned
Counted(p) == \E k \in 1..Len(listOut.value) : listOut.value[k] = p

\* C36: when getAlertsSummary has run its two queries, every record with a
\* parseable date that getExpiryStatus classifies 'expired' or 'soon' is among
\* the records returned, and no record classified 'ok' is.
C36_QueriesAgreeWithStatus ==
    listOut.op = "summary" =>
        \A i \in 1..Len(products) :
            LET p == products[i]
                st == getExpiryStatus(p.expiryDate, now, zone).status
            IN  /\ (p.expiryDate.kind = "dateOnly" /\ st \in {"expired", "soon"})
                   => Counted(p)
                /\ st = "ok" => ~Counted(p)

\* invocation i of checkExpiryAlerts returns through its catch block
QueryFails(i) == calls[i].pc \in {"expired", "expiring"} /\ calls'[i].pc = "failed"

\* C37: a step in which a query of checkExpiryAlerts rejects leaves
\* LAST_CHECK_KEY as it was; the stored day changes only in the step in which
\* the second query of an invocation resolves, to the day that invocation
\* read; and an invocation made while notifications are on and the stored day
\* is not today's starts the queries.
C37_FailureLeavesDayUnchecked ==
    [][ /\ \A i \in 1..MaxCalls : QueryFails(i) => localStorage' = localStorage
        /\ localStorage' # localStorage =>
             \E i \in 1..MaxCalls :
                /\ calls[i].pc = "expiring"
                /\ calls'[i].pc = "done"
                /\ localStorage' = [ localStorage EXCEPT !.lastCheck = calls[i].today ]
        /\ \A i \in 1..MaxCalls :
             ( /\ calls[i].pc = "idle"
               /\ calls'[i].pc # "idle"
               /\ localStorage.enabled
               /\ localStorage.lastCheck # LocalDay(zone, now) )
             => calls'[i].pc = "expired" ]_vars

\* one invocation returned through its catch block, the day is unrecorded and
\* another invocation of the same day is running its queries
C37_Witness ==
    /\ calls[1].pc = "failed"
    /\ calls[1].today = LocalDay(zone, now)
    /\ alertLog.queries = 1
    /\ localStorage.lastCheck = NoDay
    /\ calls[2].pc = "expired"
    /\ calls[2].today = LocalDay(zone, now)

\* the record's expiry date is one new Date can read
Dated(p) == p.expiryDate.kind \in {"dateOnly", "localDateTime"}

\* C38: the array sortByExpiry returns is a new array holding each record of
\* the input exactly once, and in it the records with a date are in
\* non-decreasing order of expiry instant for 'asc' and in non-increasing
\* order for 'desc'.
C38_SortedPermutation ==
    Sorted =>
        LET out == listOut.value
        IN  /\ ~listOut.same
            /\ Len(out) = Len(products)
            /\ \A i \in 1..Len(products) : \E k \in 1..Len(out) : out[k] = products[i]
            /\ \A k, l \in 1..Len(out) :
                 (k < l /\ Dated(out[k]) /\ Dated(out[l])) =>
                    IF listArg = "asc"
                    THEN NewDate(zone, out[k].expiryDate).t <= NewDate(zone, out[l].expiryDate).t
                    ELSE NewDate(zone, out[k].expiryDate).t >= NewDate(zone, out[l].expiryDate).t

\* the install handler's chain settles in this step
InstallSettles == instPc = "addAll" /\ instPc' = "done"

\* C39: the step in which the install handler's chain settles sets the
\* skip-waiting flag when the manifest population succeeded and leaves the
\* flag as it was when it failed; and an instance that is installed after a
\* successful population has the flag set, so its activation never waits for
\* a 'skipWaiting' message or for the previous version's pages.
C39_SkipWaitingIffPopulated ==
    /\ [][ InstallSettles =>
             IF installOutcome' = "ok"
             THEN skipWaitingFlag'
             ELSE skipWaitingFlag' = skipWaitingFlag ]_vars
    /\ []( (swState = "installed" /\ installOutcome = "ok") =>
             (skipWaitingFlag /\ ENABLED ActivateEvent) )

\* an instance installed after a successful population while a previous
\* version controls the pages: it has the flag and can be activated
C39_Witness ==
    /\ swState = "installed"
    /\ installOutcome = "ok"
    /\ controller = "prev"
    /\ skipWaitingFlag

====
